---- MODULE Spec2Model ----
(***************************************************************************)
(* A state-machine model of the webshell terminal gateway:                 *)
(*   PtyManager      src/src/terminal/pty.rs                               *)
(*   SessionManager  src/crates/backend/src/terminal/session.rs            *)
(*                   src/backend/src/terminal/session.rs                   *)
(*   SessionStore    src/src/auth.rs                                       *)
(*   gateway         src/src/main.rs                                       *)
(* Every await point of the source (lock acquisition, channel send, timer) *)
(* is a step boundary; the code between two await points is one step.      *)
(***************************************************************************)
EXTENDS Integers, Sequences, FiniteSets, TLC

(***************************************************************************)
(* Bounds of the model.                                                    *)
(***************************************************************************)
\* config.max_terminals (MAX_TERMINALS), kept small
MaxTerminals == 1
\* total number of pty spawns in one behaviour
MaxSpawn == 2
\* config.idle_timeout (IDLE_TIMEOUT), in reaper intervals
IdleTimeout == 1
\* term.input envelopes received in one behaviour, all connections together
MaxInput == 2
\* session tokens issued in one behaviour
MaxToken == 2
MaxName == 2
\* the reaper's interval, the unit of the clock (60 s)
ReaperInterval == 1
\* the clock stops advancing at this value
MaxTime == IdleTimeout + 3 * ReaperInterval
\* capacity of a terminal's input channel, in chunks
QueueCap == 256
\* cleanup_expired's max_age (24 h), in reaper intervals
SessionMaxAge == 1440

\* the connections (sockets); each runs one inbound task
Conns == {"c1", "c2"}
\* the terminal ids clients may name
Ids == {"t1", "t2"}
\* the user names that log in
Users == {"alice", "bob"}

NoId == "-"
NoConn == "-"
NoUser == "-"
NoData == [src |-> NoConn, n |-> 0]
NoSize == [cols |-> 0, rows |-> 0]
\* the size every term.open asks for
OpenSize == [cols |-> 80, rows |-> 24]
\* the sizes a term.resize may ask for
Sizes == {OpenSize, [cols |-> 120, rows |-> 40]}
NoSession == [handle |-> 0, last_activity |-> 0, connected |-> FALSE]
NoAuth == [username |-> NoUser, created_at |-> 0]
Insts == 1..MaxSpawn
Tokens == 1..MaxToken
\* a cookie value that names no session (no cookie at all, or a guess)
NoToken == 0

VARIABLES
  \* PtyManager and SessionManager
  sessions,   \* SessionManager.sessions: id -> SessionState, NoSession when absent
  ptys,       \* PtyManager.terminals: id -> terminal instance, 0 when absent
  child,      \* per terminal instance: "none" | "alive" | "killed" | "exited" (on its own)
  nextInst,   \* the next terminal instance spawn allocates
  size,       \* per terminal instance: the window size of its pty
  kind,       \* per terminal instance: its backend, "none" | "pty" | "ssh"
  target,     \* config.host: "local" | "remote"
  seen,       \* connection -> the kinds of frame received that no handler takes
  scanned,    \* id -> the terminal instance its record held when the cleanup task's latest scan collected it, 0 when it did not (history)
  oscall,     \* the latest call of authenticate_os: its arguments, whether it reached the helper, its outcome
  max_terminals, \* config.max_terminals
  pheld,      \* who is inside PtyManager::close with the map's write guard, and the terminal it took out
  hang,       \* the instances whose child never exits, so that wait() on it never returns
  failures,   \* the messages of the login responses with success: false
  login,      \* the latest login response: whether it authenticated, the token of its cookie
  origin,     \* token -> the authentication result of the login that created it (history)
  winch,      \* connection -> window-size requests its latest resize made to a pty (history)
  \* the inbound task of each connection
  task,       \* [pc, id, h, data]: the step it is at, and its locals
  \* time
  now,        \* the clock, in reaper intervals
  reaper,     \* the cleanup task: [pc, todo, cur]
  \* the byte movers of each terminal instance and of each connection
  sink,       \* instance -> the connection whose outbound queue its callback holds
  inputq,     \* instance -> the chunks in its input channel
  written,    \* instance -> the chunks its writer wrote to the pty master
  ptybuf,     \* instance -> the chunks the child produced and the reader has not read
  rdlog,      \* instance -> the chunks its reader read (history)
  wr,         \* instance -> writer task: "none" | "run" | "done"
  rd,         \* instance -> reader thread: "none" | "run" | "done"
  outq,       \* connection -> envelopes in its outbound channel
  delivered,  \* connection -> envelopes its sender task wrote to the socket
  routed,     \* instance -> the inputs write_to_terminal resolved to it (history)
  nsent,      \* connection -> term.input envelopes received so far
  \* connections
  conn,       \* connection -> "new" | "open" | "closed"
  token,      \* connection -> the session token it was upgraded with
  closedAt,   \* connection -> the time its inbound loop ended (history)
  preds,      \* connection -> connections already closed when it was upgraded (history)
  upg,        \* connection -> its latest upgrade request and the answer (history)
  \* SessionStore
  auth_sessions, \* token -> Session, NoAuth when absent
  nextToken,  \* the next token generate_token returns
  owner,      \* token -> the username create_session was called with (history)
  removed,    \* tokens remove_session was called with (history)
  logout,     \* the cookies of the logouts so far and the latest one (history)
  \* history of the operations
  result,     \* connection -> outcome of its latest operation
  rivals,     \* connection -> connections whose create of the same id overlapped
  peak,       \* most create operations in flight at once
  reaped,     \* instances whose idle, disconnected record the reaper removed
  denied,     \* ids absent from the map whose latest create the quota refused
  shut        \* ids whose close completed with no create of the id during it or since

smVars == <<sessions, ptys, child, nextInst>>
backVars == <<kind, target, max_terminals, hang, seen, oscall, scanned>>
ptyVars == <<size, winch, backVars, pheld>>
timeVars == <<now, reaper>>
flowVars == <<sink, inputq, written, ptybuf, rdlog, wr, rd, outq, delivered, routed, nsent>>
connVars == <<conn, token, closedAt, preds, upg>>
authVars == <<auth_sessions, nextToken, owner, removed, logout, failures, login, origin>>
histVars == <<result, rivals, peak, reaped, shut, denied>>
vars == <<smVars, ptyVars, task, timeVars, flowVars, connVars, authVars, histVars>>

\* again (history): the operation is a close issued after a completed close of the id,
\* or a resize that found the pty at the size it asks for
\* view: the view of the session map the task holds between its steps
\* term: the terminal a resize found in the pty map and is about to lock
Idle == [pc |-> "recv", id |-> NoId, h |-> 0, data |-> NoData, sz |-> NoSize, again |-> FALSE,
         view |-> "none", term |-> 0]

ClosePcs == {"cl_pty", "cl_lock", "cl_remove"}
\* the steps inside a backend call: PtyManager::spawn, resize, close, and the send on the input queue
BackendPcs == {"sp_check", "sp_spawn", "sp_insert", "rs_pty", "rs_lock", "cl_pty", "cl_lock", "cl_wait",
               "wt_send"}
\* the steps that take the pty manager's map, for reading or for writing
PtyMapPcs == {"sp_check", "sp_insert", "rs_pty", "cl_pty"}

NoHold == [by |-> NoConn, term |-> 0]

\* terminals.read().await returns: nobody holds the write guard
MapFree == pheld.by = NoConn

\* terminals.write().await returns: nobody holds the write guard or a read view
MapIdle == MapFree /\ \A c \in Conns : task[c].pc # "rs_lock"
InputPcs == {"wt_get", "wt_touch", "wt_send"}

CreatePcs == {"ct_quota", "sp_check", "sp_spawn", "sp_insert", "ct_insert"}

InCreate(c) == task[c].pc \in CreatePcs

ResizePcs == {"rs_pty", "rs_lock", "rs_touch"}

\* the inbound task is inside handle_message
HandlerPcs == CreatePcs \cup ClosePcs \cup InputPcs \cup ResizePcs \cup {"cl_wait"}

Live == {id \in Ids : sessions[id] # NoSession}

Max(a, b) == IF a >= b THEN a ELSE b

RECURSIVE Sum(_, _)
Sum(f, S) == IF S = {} THEN 0 ELSE LET x == CHOOSE y \in S : TRUE IN f[x] + Sum(f, S \ {x})

Append2(f, i, x) == [f EXCEPT ![i] = Append(@, x)]

\* the sender handles of an instance's input channel that are still held
Senders_Leak(i) ==
  Cardinality({id \in Ids : sessions[id] # NoSession /\ sessions[id].handle = i})
  + Cardinality({c \in Conns : task[c].h = i}) + 1

Senders(i) ==
  Cardinality({id \in Ids : sessions[id] # NoSession /\ sessions[id].handle = i})
  + Cardinality({c \in Conns : task[c].h = i})

Return_BreakOnError(c, r) ==
  /\ task' = [task EXCEPT ![c] = IF r = "Ok" THEN Idle ELSE [Idle EXCEPT !.pc = "ended"]]
  /\ result' = [result EXCEPT ![c] = r]

Return(c, r) ==
  /\ task' = [task EXCEPT ![c] = Idle]
  /\ result' = [result EXCEPT ![c] = r]

(***************************************************************************)
(* handle_socket, the inbound loop: a text frame that parses is handed to  *)
(* handle_message as long as the socket is open. The session token was     *)
(* looked at by ws_handler, before the upgrade, and is not looked at again *)
(* until the loop has ended.                                               *)
(***************************************************************************)
CanDispatch_TokenValid(c) == conn[c] = "open" /\ auth_sessions[token[c]] # NoAuth

CanDispatch(c) == conn[c] = "open"

(***************************************************************************)
(* handle_message, TerminalOpen: the inbound task enters create_terminal.  *)
(***************************************************************************)
TermOpen(c, id) ==
  /\ CanDispatch(c)
  /\ task[c].pc = "recv"
  /\ (nextInst - 1) + Cardinality({d \in Conns : task[d].pc \in {"ct_quota", "sp_check", "sp_spawn"}}) < MaxSpawn
  /\ task' = [task EXCEPT ![c] = [Idle EXCEPT !.pc = "ct_quota", !.id = id]]
  /\ result' = [result EXCEPT ![c] = "pending"]
  /\ rivals' = [d \in Conns |->
                  IF d = c THEN {e \in Conns \ {c} : InCreate(e) /\ task[e].id = id}
                  ELSE IF task[d].pc \in CreatePcs \cup ClosePcs /\ task[d].id = id
                         THEN rivals[d] \cup {c}
                  ELSE rivals[d]]
  /\ peak' = Max(peak, Cardinality({d \in Conns : InCreate(d)}) + 1)
  /\ shut' = shut \ {id}
  /\ denied' = denied \ {id}
  /\ UNCHANGED <<ptyVars, smVars, timeVars, flowVars, connVars, authVars, reaped>>

(***************************************************************************)
(* SessionManager::create_terminal, the quota check under the read view.   *)
(***************************************************************************)
QuotaReached_OffByOne == Cardinality(Live) > max_terminals

QuotaReached == Cardinality(Live) >= max_terminals

CtQuota(c) ==
  /\ task[c].pc = "ct_quota"
  /\ IF QuotaReached
       THEN /\ Return(c, "MaxTerminalsReached")
            /\ denied' = IF task[c].id \in Live THEN denied ELSE denied \cup {task[c].id}
       ELSE /\ task' = [task EXCEPT ![c].pc = "sp_check"]
            /\ UNCHANGED <<result, denied>>
  /\ UNCHANGED <<ptyVars, smVars, timeVars, flowVars, connVars, authVars, rivals, peak, reaped, shut>>

(***************************************************************************)
(* PtyManager::spawn, the contains_key check under the read view.          *)
(***************************************************************************)
Exists_Never(id) == FALSE

Exists(id) == ptys[id] # 0

SpCheck(c) ==
  /\ task[c].pc = "sp_check"
  /\ MapFree
  /\ IF Exists(task[c].id)
       THEN Return(c, "AlreadyExists")
       ELSE /\ task' = [task EXCEPT ![c].pc = "sp_spawn"]
            /\ UNCHANGED result
  /\ UNCHANGED <<ptyVars, smVars, timeVars, flowVars, connVars, authVars, rivals, peak, reaped, shut, denied>>

(***************************************************************************)
(* create_terminal has one backend to call, PtyManager::spawn, whatever    *)
(* the configured target is.                                               *)
(***************************************************************************)
Backend == "pty"

(***************************************************************************)
(* PtyManager::spawn: openpty and spawn_command (either may fail), the     *)
(* input channel, the reader thread and the writer task. The output        *)
(* callback is the one handle_message built: it holds the outbound queue   *)
(* of the connection that sent term.open, and the terminal id.             *)
(***************************************************************************)
SpSpawn(c) ==
  /\ task[c].pc = "sp_spawn"
  /\ \/ /\ Return(c, "PtyError")
        /\ UNCHANGED <<smVars, size, kind, sink, wr, rd>>
     \/ /\ nextInst <= MaxSpawn
        /\ child' = [child EXCEPT ![nextInst] = "alive"]
        /\ size' = [size EXCEPT ![nextInst] = OpenSize]
        /\ kind' = [kind EXCEPT ![nextInst] = Backend]
        /\ nextInst' = nextInst + 1
        /\ sink' = [sink EXCEPT ![nextInst] = [conn |-> c, id |-> task[c].id]]
        /\ wr' = [wr EXCEPT ![nextInst] = "run"]
        /\ rd' = [rd EXCEPT ![nextInst] = "run"]
        /\ task' = [task EXCEPT ![c].pc = "sp_insert", ![c].h = nextInst]
        /\ UNCHANGED <<sessions, ptys, result>>
  /\ UNCHANGED <<winch, target, max_terminals, hang, seen, oscall, scanned, pheld, timeVars, inputq, written, ptybuf, rdlog, outq, delivered, routed, nsent,
                 connVars, authVars, rivals, peak, reaped, shut, denied>>

(***************************************************************************)
(* PtyManager::spawn, the insert under the write view: an entry already    *)
(* under the id is replaced (HashMap::insert) and its TerminalState        *)
(* dropped, which signals nothing to the replaced entry's child.           *)
(***************************************************************************)
SpInsert(c) ==
  /\ task[c].pc = "sp_insert"
  /\ MapIdle
  /\ ptys' = [ptys EXCEPT ![task[c].id] = task[c].h]
  /\ task' = [task EXCEPT ![c].pc = "ct_insert"]
  /\ shut' = shut \ {task[c].id}
  /\ UNCHANGED <<ptyVars, sessions, child, nextInst, timeVars, flowVars, connVars, authVars,
                 result, rivals, peak, reaped, denied>>

(***************************************************************************)
(* SessionManager::create_terminal, the record insert under the write view.*)
(***************************************************************************)
CtInsert(c) ==
  /\ task[c].pc = "ct_insert"
  /\ sessions' = [sessions EXCEPT ![task[c].id] =
                    [handle |-> task[c].h, last_activity |-> now, connected |-> TRUE]]
  /\ Return(c, "Ok")
  /\ UNCHANGED <<ptyVars, ptys, child, nextInst, timeVars, flowVars, connVars, authVars,
                 rivals, peak, reaped, shut, denied>>

(***************************************************************************)
(* handle_message, TerminalClose: the inbound task enters close_terminal.  *)
(***************************************************************************)
TermClose(c, id) ==
  /\ CanDispatch(c)
  /\ task[c].pc = "recv"
  /\ task' = [task EXCEPT ![c] = [Idle EXCEPT !.pc = "cl_pty", !.id = id, !.again = id \in shut]]
  /\ result' = [result EXCEPT ![c] = "pending"]
  /\ rivals' = [d \in Conns |->
                  IF d = c THEN {e \in Conns \ {c} : InCreate(e) /\ task[e].id = id}
                  ELSE IF task[d].pc \in InputPcs /\ task[d].id = id
                         THEN rivals[d] \cup {c}
                  ELSE rivals[d]]
  /\ UNCHANGED <<ptyVars, smVars, timeVars, flowVars, connVars, authVars, peak, reaped, shut, denied>>

(***************************************************************************)
(* PtyManager::close. The write guard is taken and the entry removed; then *)
(* terminal.lock().await, child.kill() and child.wait(). The guard and the *)
(* terminal's lock live to the end of the function, so they are held       *)
(* across the wait: with a child that never exits the caller stays in      *)
(* wait() with both.                                                       *)
(***************************************************************************)
Blocks(i) == i # 0 /\ i \in hang

\* who holds the lock of terminal i between two steps: the close that waits for its child
LockHolder(i) ==
  IF i # 0 /\ pheld.term = i
       /\ (IF pheld.by = "reaper" THEN reaper.pc = "wait" ELSE task[pheld.by].pc = "cl_wait")
    THEN pheld.by ELSE NoConn

\* terminals.write().await and terminals.remove(terminal_id)
PtyClose(who, id) ==
  /\ ptys' = [ptys EXCEPT ![id] = 0]
  /\ pheld' = IF ptys[id] # 0 THEN [by |-> who, term |-> ptys[id]] ELSE pheld

\* terminal.lock().await, kill, wait, and the return that drops the lock and the guard
PtyKill ==
  /\ LockHolder(pheld.term) = NoConn
  /\ child' = IF Blocks(pheld.term) \/ child[pheld.term] # "alive" THEN child
              ELSE [child EXCEPT ![pheld.term] = "killed"]
  /\ pheld' = IF Blocks(pheld.term) THEN pheld ELSE NoHold

PtyCloseResult_Unit(id) == "Ok"

PtyCloseResult(id) == IF ptys[id] # 0 THEN "Ok" ELSE "NotFound"

ClPty(c) ==
  /\ task[c].pc = "cl_pty"
  /\ MapIdle
  /\ PtyClose(c, task[c].id)
  /\ IF ptys[task[c].id] # 0
       THEN /\ task' = [task EXCEPT ![c].pc = "cl_lock"]
            /\ UNCHANGED result
       ELSE /\ task' = [task EXCEPT ![c].pc = "cl_remove"]
            /\ result' = [result EXCEPT ![c] = PtyCloseResult(task[c].id)]
  /\ UNCHANGED <<size, winch, backVars, sessions, child, nextInst, timeVars, flowVars, connVars, authVars,
                 rivals, peak, reaped, shut, denied>>

ClLock(c) ==
  /\ task[c].pc = "cl_lock"
  /\ pheld.by = c
  /\ PtyKill
  /\ IF Blocks(pheld.term)
       THEN /\ task' = [task EXCEPT ![c].pc = "cl_wait"]
            /\ UNCHANGED result
       ELSE /\ task' = [task EXCEPT ![c].pc = "cl_remove"]
            /\ result' = [result EXCEPT ![c] = "Ok"]
  /\ UNCHANGED <<size, winch, backVars, sessions, ptys, nextInst, timeVars, flowVars, connVars, authVars,
                 rivals, peak, reaped, shut, denied>>

(***************************************************************************)
(* SessionManager::close_terminal, the record removal under the write view.*)
(* It returns (), and handle_message's TerminalClose arm ends there: the   *)
(* arm is not given tx and answers nothing.                                *)
(***************************************************************************)
CloseReply_Exit(c, id) == Append2(outq, c, [id |-> id, inst |-> 0, src |-> "shell.exit", n |-> 0])

CloseReply(c, id) == outq

ClRemove(c) ==
  /\ task[c].pc = "cl_remove"
  /\ sessions' = [sessions EXCEPT ![task[c].id] = NoSession]
  /\ Return(c, "Ok")
  /\ shut' = IF rivals[c] = {} THEN shut \cup {task[c].id} ELSE shut
  /\ outq' = CloseReply(c, task[c].id)
  /\ UNCHANGED <<ptyVars, ptys, child, nextInst, timeVars, sink, inputq, written, ptybuf, rdlog,
                 wr, rd, delivered, routed, nsent, connVars, authVars, rivals, peak, reaped, denied>>

(***************************************************************************)
(* handle_message, TerminalInput: the inbound task enters                  *)
(* write_to_terminal with the envelope's input.                            *)
(***************************************************************************)
TermInput(c, id) ==
  /\ CanDispatch(c)
  /\ task[c].pc = "recv"
  /\ Sum(nsent, Conns) < MaxInput
  /\ nsent' = [nsent EXCEPT ![c] = @ + 1]
  /\ task' = [task EXCEPT ![c] = [Idle EXCEPT !.pc = "wt_get", !.id = id,
                                               !.data = [src |-> c, n |-> nsent[c] + 1]]]
  /\ result' = [result EXCEPT ![c] = "pending"]
  /\ rivals' = [rivals EXCEPT ![c] =
                  {e \in Conns \ {c} : task[e].pc \in ClosePcs /\ task[e].id = id}]
  /\ UNCHANGED <<ptyVars, smVars, timeVars, sink, inputq, written, ptybuf, rdlog, wr, rd, outq,
                 delivered, routed, connVars, authVars, peak, reaped, shut, denied>>

(***************************************************************************)
(* write_to_terminal: the lookup under the read view; the handle is cloned *)
(* and the view released.                                                  *)
(***************************************************************************)
\* drop(sessions) right after the handle is cloned
ViewAfterGet_Kept == "read"

ViewAfterGet == "none"

\* sessions.get(session_id): the map is keyed by the terminal id alone
Found_OwnOnly(c, id) == sessions[id] # NoSession /\ sink[sessions[id].handle].conn = c

Found(c, id) == sessions[id] # NoSession

WtGet(c) ==
  /\ task[c].pc = "wt_get"
  /\ IF ~Found(c, task[c].id)
       THEN /\ Return(c, "NotFound")
            /\ UNCHANGED routed
       ELSE /\ task' = [task EXCEPT ![c].pc = "wt_touch", ![c].h = sessions[task[c].id].handle,
                                    ![c].view = ViewAfterGet]
            /\ routed' = Append2(routed, sessions[task[c].id].handle, task[c].data)
            /\ UNCHANGED result
  /\ UNCHANGED <<ptyVars, smVars, timeVars, sink, inputq, written, ptybuf, rdlog, wr, rd, outq,
                 delivered, nsent, connVars, authVars, rivals, peak, reaped, shut, denied>>

(***************************************************************************)
(* SessionManager::touch under the write view: a no-op on an absent id.    *)
(***************************************************************************)
Touch(id) ==
  sessions' = IF sessions[id] # NoSession
                THEN [sessions EXCEPT ![id].last_activity = now]
                ELSE sessions

WtTouch(c) ==
  /\ task[c].pc = "wt_touch"
  /\ Touch(task[c].id)
  /\ task' = [task EXCEPT ![c].pc = "wt_send"]
  /\ UNCHANGED <<ptyVars, ptys, child, nextInst, timeVars, flowVars, connVars, authVars, histVars>>

(***************************************************************************)
(* handle_message, TerminalResize: the inbound task enters                 *)
(* resize_terminal with the envelope's size.                               *)
(***************************************************************************)
TermResize(c, id, sz) ==
  /\ CanDispatch(c)
  /\ task[c].pc = "recv"
  /\ task' = [task EXCEPT ![c] = [Idle EXCEPT !.pc = "rs_pty", !.id = id, !.sz = sz]]
  /\ result' = [result EXCEPT ![c] = "pending"]
  /\ rivals' = [rivals EXCEPT ![c] = {}]
  /\ winch' = [winch EXCEPT ![c] = 0]
  /\ UNCHANGED <<smVars, size, backVars, pheld, timeVars, flowVars, connVars, authVars,
                 peak, reaped, shut, denied>>

(***************************************************************************)
(* PtyManager::resize. The read view is taken and the id looked up:        *)
(* NotFound for an absent id. With the view held, terminal.lock().await    *)
(* and one master.resize with the size asked for, whatever the current     *)
(* size is; an error of the resize call is returned as it is.              *)
(***************************************************************************)
RsPty(c) ==
  /\ task[c].pc = "rs_pty"
  /\ MapFree
  /\ IF ptys[task[c].id] = 0
       THEN Return(c, "NotFound")
       ELSE /\ task' = [task EXCEPT ![c].pc = "rs_lock", ![c].term = ptys[task[c].id]]
            /\ UNCHANGED result
  /\ UNCHANGED <<smVars, ptyVars, timeVars, flowVars, connVars, authVars,
                 rivals, peak, reaped, shut, denied>>

WinchRequests_Two == 1 + 1

WinchRequests == 1

RsLock(c) ==
  /\ task[c].pc = "rs_lock"
  /\ LockHolder(task[c].term) = NoConn
  /\ winch' = [winch EXCEPT ![c] = @ + WinchRequests]
  /\ \/ /\ size' = [size EXCEPT ![task[c].term] = task[c].sz]
        /\ task' = [task EXCEPT ![c].pc = "rs_touch", ![c].term = 0,
                                ![c].again = size[task[c].term] = task[c].sz]
        /\ UNCHANGED result
     \/ /\ Return(c, "PtyError")
        /\ UNCHANGED size
  /\ UNCHANGED <<smVars, backVars, pheld, timeVars, flowVars, connVars, authVars,
                 rivals, peak, reaped, shut, denied>>

(***************************************************************************)
(* resize_terminal: touch after a successful resize.                       *)
(***************************************************************************)
RsTouch(c) ==
  /\ task[c].pc = "rs_touch"
  /\ Touch(task[c].id)
  /\ Return(c, "Ok")
  /\ UNCHANGED <<ptys, child, nextInst, ptyVars, timeVars, flowVars, connVars, authVars,
                 rivals, peak, reaped, shut, denied>>

(***************************************************************************)
(* write_to_terminal: input_tx.send(bytes).await. The send fails once the  *)
(* receiver (the writer task) is gone and waits while the channel is full. *)
(***************************************************************************)
SendResult_Ok(h) == "Ok"

SendResult(h) == IF wr[h] = "done" THEN "SendError" ELSE "Ok"

\* input_tx.send(data).await on the bounded channel: it completes when a slot is free
HasRoom_Unbounded(q) == TRUE

HasRoom(q) == Len(q) < QueueCap

WtSend(c) ==
  /\ task[c].pc = "wt_send"
  /\ IF wr[task[c].h] = "done"
       THEN UNCHANGED inputq
       ELSE /\ HasRoom(inputq[task[c].h])
            /\ inputq' = Append2(inputq, task[c].h, task[c].data)
  /\ Return(c, SendResult(task[c].h))
  /\ UNCHANGED <<ptyVars, smVars, timeVars, sink, written, ptybuf, rdlog, wr, rd, outq,
                 delivered, routed, nsent, connVars, authVars, rivals, peak, reaped, shut, denied>>

(***************************************************************************)
(* The writer task of a terminal: input_rx.recv(), write_all, flush. It    *)
(* ends when every sender is dropped and the channel is empty, or when a   *)
(* write fails; a write to the master of a dead child may do either. The   *)
(* live child echoes what it is sent.                                      *)
(***************************************************************************)
NextChunk_Lifo(q) == q[Len(q)]

NextChunk(q) == Head(q)

Rest(q) == SubSeq(q, 2, Len(q))

Writer(i) ==
  /\ wr[i] = "run"
  /\ \/ /\ inputq[i] # <<>>
        /\ child[i] = "alive"
        /\ written' = Append2(written, i, NextChunk(inputq[i]))
        /\ ptybuf' = Append2(ptybuf, i, NextChunk(inputq[i]))
        /\ inputq' = [inputq EXCEPT ![i] = Rest(@)]
        /\ UNCHANGED wr
     \/ /\ inputq[i] # <<>>
        /\ child[i] # "alive"
        /\ \/ /\ written' = Append2(written, i, NextChunk(inputq[i]))
              /\ inputq' = [inputq EXCEPT ![i] = Rest(@)]
              /\ UNCHANGED wr
           \/ /\ wr' = [wr EXCEPT ![i] = "done"]
              /\ inputq' = [inputq EXCEPT ![i] = <<>>]
              /\ UNCHANGED written
        /\ UNCHANGED ptybuf
     \/ /\ inputq[i] = <<>>
        /\ Senders(i) = 0
        /\ wr' = [wr EXCEPT ![i] = "done"]
        /\ UNCHANGED <<inputq, written, ptybuf>>
  /\ UNCHANGED <<ptyVars, smVars, task, timeVars, sink, rdlog, rd, outq, delivered, routed, nsent,
                 connVars, authVars, histVars>>

(***************************************************************************)
(* The reader thread of a terminal: one read of the master, then the       *)
(* callback. create_terminal's byte_callback hands the chunk on only when  *)
(* String::from_utf8 accepts it; handle_message's output_callback sends a  *)
(* shell.output envelope on the outbound channel of the connection that    *)
(* opened the terminal and ignores a failed send. EOF ends the thread.     *)
(***************************************************************************)
FromUtf8Ok(chunk) == chunk.valid

\* tx_clone, the sender the callback captured: the outbound queue of the socket that sent term.open
OutputQueue_Shared(i) == "c1"

OutputQueue(i) == sink[i].conn

ShellOutput(i, chunk) == [id |-> sink[i].id, inst |-> i, src |-> chunk.src, n |-> chunk.n]

\* Ok(0) and Err: a debug line and break; the thread holds neither map
AfterEof_Remove(i) ==
  [id \in Ids |-> IF sessions[id] # NoSession /\ sessions[id].handle = i THEN NoSession ELSE sessions[id]]

AfterEof(i) == sessions

Reader(i) ==
  /\ rd[i] = "run"
  /\ \/ /\ ptybuf[i] # <<>>
        /\ \E v \in BOOLEAN :
             LET chunk == [src |-> Head(ptybuf[i]).src, n |-> Head(ptybuf[i]).n, valid |-> v]
             IN /\ rdlog' = Append2(rdlog, i, chunk)
                /\ outq' = IF FromUtf8Ok(chunk) /\ conn[OutputQueue(i)] = "open"
                             THEN Append2(outq, OutputQueue(i), ShellOutput(i, chunk))
                             ELSE outq
        /\ ptybuf' = [ptybuf EXCEPT ![i] = Rest(@)]
        /\ UNCHANGED <<rd, sessions>>
     \/ /\ ptybuf[i] = <<>>
        /\ child[i] # "alive"
        /\ rd' = [rd EXCEPT ![i] = "done"]
        /\ sessions' = AfterEof(i)
        /\ UNCHANGED <<ptybuf, rdlog, outq>>
  /\ UNCHANGED <<ptyVars, ptys, child, nextInst, task, timeVars, sink, inputq, written, wr, delivered,
                 routed, nsent, connVars, authVars, histVars>>

(***************************************************************************)
(* The child of a terminal exits on its own (the user types exit, the      *)
(* shell is killed from outside): nothing in the process waits for it.     *)
(***************************************************************************)
ChildExit(i) ==
  /\ child[i] = "alive"
  /\ i \notin hang
  /\ child' = [child EXCEPT ![i] = "exited"]
  /\ UNCHANGED <<ptyVars, sessions, ptys, nextInst, task, timeVars, flowVars, connVars, authVars, histVars>>

(***************************************************************************)
(* The sender task of a connection: takes the next envelope off the        *)
(* outbound channel, serializes it and writes it to the socket.            *)
(***************************************************************************)
SendTask(c) ==
  /\ conn[c] = "open"
  /\ outq[c] # <<>>
  /\ delivered' = Append2(delivered, c, Head(outq[c]))
  /\ outq' = [outq EXCEPT ![c] = Rest(@)]
  /\ UNCHANGED <<ptyVars, smVars, task, timeVars, sink, inputq, written, ptybuf, rdlog, wr, rd,
                 routed, nsent, connVars, authVars, histVars>>

(***************************************************************************)
(* SessionStore.                                                           *)
(***************************************************************************)
ValidateSession_AnyToken(t) == IF t \in Tokens THEN "alice" ELSE NoUser

ValidateSession(t) ==
  IF t \in Tokens /\ auth_sessions[t] # NoAuth THEN auth_sessions[t].username ELSE NoUser

RemoveSession_Keeps(t) == auth_sessions

RemoveSession(t) ==
  IF t \in Tokens THEN [auth_sessions EXCEPT ![t] = NoAuth] ELSE auth_sessions

\* the tokens create_session has returned so far
Issued == {t \in Tokens : t < nextToken}

\* never called: the source marks it dead code and has no call site
CleanupExpired == [t \in Tokens |->
  IF auth_sessions[t] # NoAuth /\ now - auth_sessions[t].created_at < SessionMaxAge
    THEN auth_sessions[t] ELSE NoAuth]

(***************************************************************************)
(* session_check (/api/session): the answer to a request with the cookie.  *)
(***************************************************************************)
SessionCheck(cookie) ==
  IF ValidateSession(cookie) # NoUser
    THEN [authenticated |-> TRUE, username |-> ValidateSession(cookie)]
    ELSE [authenticated |-> FALSE, username |-> NoUser]

(***************************************************************************)
(* A login attempt: the form's host, username and password, the configured *)
(* auth method with the worth of its secret, and whether the host answers. *)
(* BadName is a username with a space in it; the right password is right   *)
(* for every user.                                                         *)
(***************************************************************************)
BadName == "al ice"
Hosts == {"localhost", "remote"}
AuthMethods == {"None", "Password", "KeyFile", "KeyData"}
Attempts ==
  {a \in [host : Hosts, up : BOOLEAN, auth : AuthMethods,
          cred : {"right", "wrong", "unreadable"},
          username : Users \cup {"", BadName},
          password : {"", "right", "wrong"}] :
     a.cred = "unreadable" => a.auth \in {"KeyFile", "KeyData"}}

Ok(u) == [ok |-> TRUE, val |-> u]
Err(e) == [ok |-> FALSE, val |-> e]

(***************************************************************************)
(* Characters. char::is_alphanumeric is Unicode's Alphabetic or Numeric,   *)
(* so it holds of letters and digits outside ASCII too. A character is a   *)
(* string here; "e-acute" and "arabic-three" are U+00E9 and U+0663.        *)
(***************************************************************************)
AsciiAlnum == {"a", "b", "c", "e", "i", "l", "o", "Z", "7"}
OtherAlnum == {"e-acute", "arabic-three"}
is_alphanumeric(ch) == ch \in AsciiAlnum \cup OtherAlnum

\* the characters of the usernames of the model
Chars(u) ==
  CASE u = "" -> <<>>
    [] u = "alice" -> <<"a", "l", "i", "c", "e">>
    [] u = "bob" -> <<"b", "o", "b">>
    [] u = BadName -> <<"a", "l", " ", "i", "c", "e">>

(***************************************************************************)
(* authenticate_os, the checks ahead of the helper: both strings non-empty *)
(* and every character of the username alphanumeric or one of _ - .        *)
(***************************************************************************)
Sanitized(username) ==
  \A i \in 1..Len(username) :
    is_alphanumeric(username[i]) \/ username[i] \in {"_", "-", "."}

OsGuard(username, password) ==
  IF username = <<>> \/ password = "" THEN Err("Username and password required")
  ELSE IF ~Sanitized(username) THEN Err("Invalid username")
  ELSE Ok("helper")

(***************************************************************************)
(* authenticate_os, with authenticate_linux / authenticate_macos behind it *)
(***************************************************************************)
authenticate_os(username, password) ==
  IF ~OsGuard(username, password).ok THEN OsGuard(username, password)
  ELSE IF password = "right" THEN Ok(username)
  ELSE Err("Invalid username or password")

\* one call of authenticate_os
NoOsCall == [username |-> <<>>, password |-> "", called |-> FALSE, helper |-> FALSE, ok |-> FALSE]

OsCall(username, password) ==
  /\ oscall' = [username |-> username, password |-> password, called |-> TRUE,
                helper |-> OsGuard(username, password).ok,
                ok |-> authenticate_os(username, password).ok]
  /\ UNCHANGED <<size, winch, kind, target, max_terminals, hang, seen, scanned, pheld, smVars, task, timeVars, flowVars,
                 connVars, authVars, histVars>>

(***************************************************************************)
(* SshSession::connect as test_connection uses it: the connection, then    *)
(* the key if one is used, then the authentication.                        *)
(***************************************************************************)
test_connection(up, auth, secret) ==
  IF ~up THEN Err("SSH connection failed")
  ELSE IF auth = "KeyFile" /\ secret = "unreadable" THEN Err("Failed to load key file")
  ELSE IF auth = "KeyData" /\ secret = "unreadable" THEN Err("Failed to decode key data")
  ELSE IF secret # "right" THEN Err("Authentication failed")
  ELSE Ok("Connection successful")

(***************************************************************************)
(* login_handler up to auth_result: the configured host wins over the      *)
(* form's; a local host is checked by authenticate_os, any other by an ssh *)
(* connection.                                                             *)
(***************************************************************************)
AuthResult(a) ==
  LET host == IF target = "remote" THEN "remote" ELSE a.host
      is_local == host = "localhost"
  IN IF is_local
       THEN LET password == IF a.auth = "Password" THEN a.cred ELSE a.password
            IN IF a.username = "" \/ password = ""
                 THEN Err("Username and password required")
                 ELSE LET r == authenticate_os(Chars(a.username), password)
                      IN IF r.ok THEN Ok(a.username) ELSE r
       ELSE IF a.auth = "None" /\ a.password = "" THEN Err("Password required")
       ELSE IF a.username = "" THEN Err("Username required")
       ELSE LET secret == IF a.auth = "None" THEN a.password ELSE a.cred
                r == test_connection(a.up, a.auth, secret)
            IN IF r.ok THEN Ok(a.username) ELSE r

(***************************************************************************)
(* login_handler: only a successful login calls create_session, whose      *)
(* token generate_token draws afresh (a 256-bit hash of 32 random bytes    *)
(* and the clock: taken to never repeat); a failed one answers with the    *)
(* error's text as its message.                                            *)
(***************************************************************************)
\* the match on auth_result: the Ok arm alone calls create_session and adds the cookie
CreatesSession_Always(r) == TRUE

CreatesSession(r) == r.ok

NoLogin == [made |-> FALSE, ok |-> FALSE, cookie |-> NoToken]
NoOrigin == [ok |-> FALSE, val |-> "none"]

Login(a) ==
  /\ LET r == AuthResult(a)
     IN /\ IF CreatesSession(r)
             THEN /\ nextToken <= MaxToken
                  /\ auth_sessions' = [auth_sessions EXCEPT ![nextToken] =
                                         [username |-> r.val, created_at |-> now]]
                  /\ owner' = [owner EXCEPT ![nextToken] = r.val]
                  /\ origin' = [origin EXCEPT ![nextToken] = r]
                  /\ login' = [made |-> TRUE, ok |-> r.ok, cookie |-> nextToken]
                  /\ nextToken' = nextToken + 1
             ELSE /\ login' = [made |-> TRUE, ok |-> r.ok, cookie |-> NoToken]
                  /\ UNCHANGED <<auth_sessions, owner, nextToken, origin>>
        /\ failures' = IF r.ok THEN failures ELSE failures \cup {r.val}
  /\ UNCHANGED <<ptyVars, smVars, task, timeVars, flowVars, connVars, removed, logout, histVars>>

\* the attempts of a user at the local host with a password typed in the form
FormAttempts ==
  {a \in Attempts : /\ a.host = "localhost" /\ a.up /\ a.auth = "None" /\ a.cred = "right"
                    /\ a.username \in Users /\ a.password \in {"right", "wrong"}}

(***************************************************************************)
(* logout_handler: remove_session with whatever the cookie holds; the      *)
(* response is the same JSON body whatever was found.                      *)
(***************************************************************************)
NoLogout == [seen |-> {}, again |-> FALSE, same |-> FALSE, success |-> FALSE]

LogoutResponse_NotFound(cookie) == [success |-> ValidateSession(cookie) # NoUser]

LogoutResponse(cookie) == [success |-> TRUE]

Logout(cookie) ==
  /\ auth_sessions' = RemoveSession(cookie)
  /\ removed' = IF cookie \in Tokens THEN removed \cup {cookie} ELSE removed
  /\ logout' = [seen |-> logout.seen \cup {cookie},
                again |-> cookie \in logout.seen,
                same |-> auth_sessions' = auth_sessions,
                success |-> LogoutResponse(cookie).success]
  /\ UNCHANGED <<ptyVars, smVars, task, timeVars, flowVars, connVars, nextToken, owner, failures, login, origin, histVars>>

(***************************************************************************)
(* ws_handler: the upgrade request of a new socket. A cookie that          *)
(* validate_session accepts upgrades the socket into handle_socket; any    *)
(* other request is answered 401.                                          *)
(***************************************************************************)
WsHandler(c, cookie) ==
  /\ conn[c] = "new"
  /\ LET valid == cookie \in Issued /\ cookie \notin removed
     IN IF ValidateSession(cookie) # NoUser
          THEN /\ conn' = [conn EXCEPT ![c] = "open"]
               /\ token' = [token EXCEPT ![c] = cookie]
               /\ preds' = [preds EXCEPT ![c] = {d \in Conns : conn[d] = "closed"}]
               /\ upg' = [upg EXCEPT ![c] = [cookie |-> cookie, valid |-> valid, status |-> 101]]
          ELSE /\ upg' = [upg EXCEPT ![c] = [cookie |-> cookie, valid |-> valid, status |-> 401]]
               /\ UNCHANGED <<conn, token, preds>>
  /\ UNCHANGED <<ptyVars, smVars, task, timeVars, flowVars, closedAt, authVars, histVars>>

(***************************************************************************)
(* handle_socket, after the inbound loop: the loop ends on a close frame,  *)
(* the end of the stream or a read error, seen only between two envelopes. *)
(* The sender task is aborted, which drops the outbound channel's          *)
(* receiver, and the socket's token is removed. Nothing else is touched:   *)
(* the terminals the socket opened stay in the map (register_disconnect    *)
(* says as much: terminals are not closed on disconnect).                  *)
(***************************************************************************)
OnDisconnect_CloseOwn(c) ==
  [id \in Ids |-> IF sessions[id] # NoSession /\ sink[sessions[id].handle].conn = c
                    THEN NoSession ELSE sessions[id]]

OnDisconnect(c) == sessions

LoopExit(c) ==
  /\ conn' = [conn EXCEPT ![c] = "closed"]
  /\ closedAt' = [closedAt EXCEPT ![c] = now]
  /\ outq' = [outq EXCEPT ![c] = <<>>]
  /\ auth_sessions' = RemoveSession(token[c])
  /\ removed' = removed \cup {token[c]}
  /\ sessions' = OnDisconnect(c)

SockClose(c) ==
  /\ conn[c] = "open"
  /\ task[c].pc = "recv"
  /\ LoopExit(c)
  /\ UNCHANGED <<ptyVars, ptys, child, nextInst, task, timeVars, sink, inputq, written, ptybuf, rdlog, wr, rd,
                 delivered, routed, nsent, token, preds, upg, nextToken, owner, logout,
                 failures, login, origin, histVars>>

(***************************************************************************)
(* handle_socket, the match on a received frame, and handle_message's      *)
(* match on the envelope: a close frame breaks the loop, a text frame that *)
(* parses as one of the four term.* envelopes is handled, and everything   *)
(* else (a binary, ping or pong frame, a text that serde_json rejects, a   *)
(* shell.output or shell.exit envelope) falls through an empty arm.        *)
(***************************************************************************)
TermFrames == {"term.open", "term.input", "term.resize", "term.close"}
OtherFrames == {"binary", "malformed", "shell.output", "shell.exit"}

FrameEffect_BinaryBreaks(f) ==
  CASE f \in {"close", "binary"} -> "break"
    [] f \in TermFrames -> "handle"
    [] OTHER -> "drop"

FrameEffect(f) ==
  CASE f = "close" -> "break"
    [] f \in TermFrames -> "handle"
    [] OTHER -> "drop"

\* the inbound task takes a frame that is none of the term.* envelopes
RecvFrame(c, f) ==
  /\ conn[c] = "open"
  /\ task[c].pc = "recv"
  /\ FrameEffect(f) # "handle"
  /\ seen' = [seen EXCEPT ![c] = @ \cup {f}]
  /\ IF FrameEffect(f) = "break"
       THEN LoopExit(c)
       ELSE UNCHANGED <<conn, closedAt, outq, auth_sessions, removed, sessions>>
  /\ UNCHANGED <<size, winch, kind, target, max_terminals, hang, oscall, scanned, pheld, ptys, child, nextInst, task, timeVars,
                 sink, inputq, written, ptybuf, rdlog, wr, rd, delivered, routed, nsent,
                 token, preds, upg, nextToken, owner, logout, failures, login, origin, histVars>>

(***************************************************************************)
(* SessionManager::disconnect (backend/src): flips the connected flag.     *)
(***************************************************************************)
Disconnect_Touch(id) ==
  IF sessions[id] # NoSession
    THEN [sessions EXCEPT ![id].connected = FALSE, ![id].last_activity = now]
    ELSE sessions

Disconnect(id) ==
  IF sessions[id] # NoSession
    THEN [sessions EXCEPT ![id].connected = FALSE]
    ELSE sessions

SmDisconnect(id) ==
  /\ sessions[id] # NoSession
  /\ sessions[id].connected
  /\ sessions' = Disconnect(id)
  /\ UNCHANGED <<ptyVars, ptys, child, nextInst, task, timeVars, flowVars, connVars, authVars, histVars>>

(***************************************************************************)
(* The cleanup task: interval.tick() fires once per reaper interval.       *)
(***************************************************************************)
Asleep == [pc |-> "sleep", todo |-> {}, cur |-> NoId]

Tick ==
  /\ reaper.pc = "sleep"
  /\ now < MaxTime
  /\ now' = now + ReaperInterval
  /\ reaper' = [reaper EXCEPT !.pc = "scan"]
  /\ UNCHANGED <<ptyVars, smVars, task, flowVars, connVars, authVars, histVars>>

\* a quiet day and one more interval: with no terminal registered every wake-up
\* of the cleanup task in between finds nothing, so they pass as one step
Elapse ==
  /\ reaper.pc = "sleep"
  /\ Live = {}
  /\ now < 2 * SessionMaxAge
  /\ now' = now + SessionMaxAge + ReaperInterval
  /\ UNCHANGED <<ptyVars, smVars, task, reaper, flowVars, connVars, authVars, histVars>>

\* the scan under the read view: disconnected records idle for longer than the timeout
IdleIds == {id \in Live : ~sessions[id].connected /\ now - sessions[id].last_activity > IdleTimeout}

(***************************************************************************)
(* One step of the cleanup loop: the scan, then for each collected id      *)
(* PtyManager::close and, under the write view, the record's removal.      *)
(***************************************************************************)
\* an Err from PtyManager::close is logged and the loop body goes on
AfterClose_Abort(id) == IF PtyCloseResult(id) = "Ok" THEN "remove" ELSE "dead"

AfterClose(id) == "remove"

ReaperStep ==
  /\ reaper.pc \in {"scan", "close", "kill", "remove"}
  /\ CASE reaper.pc = "scan" ->
            /\ reaper' = IF IdleIds = {} THEN Asleep
                         ELSE [pc |-> "close", todo |-> IdleIds, cur |-> NoId]
            /\ scanned' = [id \in Ids |-> IF id \in IdleIds THEN sessions[id].handle ELSE 0]
            /\ UNCHANGED <<smVars, reaped, pheld>>
       [] reaper.pc = "close" ->
            \E id \in reaper.todo :
              /\ MapIdle
              /\ PtyClose("reaper", id)
              /\ reaper' = [reaper EXCEPT !.pc = IF ptys[id] # 0 THEN "kill" ELSE AfterClose(id),
                                          !.cur = id]
              /\ UNCHANGED <<sessions, child, nextInst, reaped, scanned>>
       [] reaper.pc = "kill" ->
            /\ pheld.by = "reaper"
            /\ PtyKill
            /\ reaper' = [reaper EXCEPT !.pc = IF Blocks(pheld.term) THEN "wait" ELSE "remove"]
            /\ UNCHANGED <<sessions, ptys, nextInst, reaped, scanned>>
       [] reaper.pc = "remove" ->
            /\ sessions' = [sessions EXCEPT ![reaper.cur] = NoSession]
            /\ reaped' = IF reaper.cur \in IdleIds
                           THEN reaped \cup {sessions[reaper.cur].handle}
                           ELSE reaped
            /\ reaper' = IF reaper.todo = {reaper.cur} THEN Asleep
                         ELSE [pc |-> "close", todo |-> reaper.todo \ {reaper.cur}, cur |-> NoId]
            /\ UNCHANGED <<ptys, child, nextInst, pheld, scanned>>
  /\ UNCHANGED <<size, winch, kind, target, max_terminals, hang, seen, oscall, task, now, flowVars, connVars, authVars, result, rivals, peak, shut, denied>>

(***************************************************************************)
(* Initial states.                                                         *)
(***************************************************************************)
InitManagers ==
  /\ sessions = [id \in Ids |-> NoSession]
  /\ ptys = [id \in Ids |-> 0]
  /\ child = [i \in Insts |-> "none"]
  /\ nextInst = 1
  /\ size = [i \in Insts |-> NoSize]
  /\ winch = [c \in Conns |-> 0]
  /\ kind = [i \in Insts |-> "none"]
  /\ pheld = NoHold
  /\ seen = [c \in Conns |-> {}]
  /\ oscall = NoOsCall
  /\ scanned = [id \in Ids |-> 0]
  /\ task = [c \in Conns |-> Idle]
  /\ now = 0
  /\ reaper = Asleep
  /\ sink = [i \in Insts |-> [conn |-> NoConn, id |-> NoId]]
  /\ inputq = [i \in Insts |-> <<>>]
  /\ written = [i \in Insts |-> <<>>]
  /\ ptybuf = [i \in Insts |-> <<>>]
  /\ rdlog = [i \in Insts |-> <<>>]
  /\ wr = [i \in Insts |-> "none"]
  /\ rd = [i \in Insts |-> "none"]
  /\ outq = [c \in Conns |-> <<>>]
  /\ delivered = [c \in Conns |-> <<>>]
  /\ routed = [i \in Insts |-> <<>>]
  /\ nsent = [c \in Conns |-> 0]
  /\ result = [c \in Conns |-> "none"]
  /\ rivals = [c \in Conns |-> {}]
  /\ peak = 0
  /\ reaped = {}
  /\ shut = {}
  /\ denied = {}

NoUpgrade == [cookie |-> NoToken, valid |-> FALSE, status |-> 0]

\* nobody has logged in, no socket has been opened
InitFresh ==
  /\ InitManagers
  /\ conn = [c \in Conns |-> "new"]
  /\ token = [c \in Conns |-> NoToken]
  /\ closedAt = [c \in Conns |-> 0]
  /\ preds = [c \in Conns |-> {}]
  /\ upg = [c \in Conns |-> NoUpgrade]
  /\ auth_sessions = [t \in Tokens |-> NoAuth]
  /\ nextToken = 1
  /\ owner = [t \in Tokens |-> NoUser]
  /\ removed = {}
  /\ logout = NoLogout
  /\ failures = {}
  /\ login = NoLogin
  /\ origin = [t \in Tokens |-> IF t < nextToken THEN Ok(owner[t]) ELSE NoOrigin]
  /\ target = "local"
  /\ hang = {}
  /\ max_terminals = MaxTerminals

ConnToken == [c \in Conns |-> IF c = "c1" THEN 1 ELSE 2]
TokenUser == [t \in Tokens |-> IF t = 1 THEN "alice" ELSE IF t = 2 THEN "bob" ELSE NoUser]

\* two users have logged in and each has opened a socket
InitOpen ==
  /\ InitManagers
  /\ conn = [c \in Conns |-> "open"]
  /\ token = ConnToken
  /\ closedAt = [c \in Conns |-> 0]
  /\ preds = [c \in Conns |-> {}]
  /\ upg = [c \in Conns |-> [cookie |-> ConnToken[c], valid |-> TRUE, status |-> 101]]
  /\ auth_sessions = [t \in Tokens |-> IF t <= 2 THEN [username |-> TokenUser[t], created_at |-> 0] ELSE NoAuth]
  /\ nextToken = 3
  /\ owner = TokenUser
  /\ removed = {}
  /\ logout = NoLogout
  /\ failures = {}
  /\ login = NoLogin
  /\ origin = [t \in Tokens |-> IF t < nextToken THEN Ok(owner[t]) ELSE NoOrigin]
  /\ target = "local"
  /\ hang = {}
  /\ max_terminals = MaxTerminals

(***************************************************************************)
(* SpecTerm: the session manager under concurrent create and close         *)
(* operations of two connections.                                          *)
(***************************************************************************)
NextTerm ==
  \/ \E c \in Conns, id \in Ids : TermOpen(c, id)
  \/ \E c \in Conns : CtQuota(c)
  \/ \E c \in Conns : SpCheck(c)
  \/ \E c \in Conns : SpSpawn(c)
  \/ \E c \in Conns : SpInsert(c)
  \/ \E c \in Conns : CtInsert(c)
  \/ \E c \in Conns, id \in Ids : TermClose(c, id)
  \/ \E c \in Conns : ClPty(c)
  \/ \E c \in Conns : ClLock(c)
  \/ \E c \in Conns : ClRemove(c)

SpecTerm == InitOpen /\ [][NextTerm]_vars

(***************************************************************************)
(* SpecReap: create, disconnect and the cleanup task on one terminal id,   *)
(* with the clock.                                                         *)
(***************************************************************************)
NextReap ==
  \/ \E c \in Conns : TermOpen(c, "t1")
  \/ \E c \in Conns : CtQuota(c)
  \/ \E c \in Conns : SpCheck(c)
  \/ \E c \in Conns : SpSpawn(c)
  \/ \E c \in Conns : SpInsert(c)
  \/ \E c \in Conns : CtInsert(c)
  \/ SmDisconnect("t1")
  \/ Tick
  \/ ReaperStep

SpecReap == InitOpen /\ [][NextReap]_vars

\* two users have logged in; no socket has been opened
InitLogged ==
  /\ InitManagers
  /\ conn = [c \in Conns |-> "new"]
  /\ token = [c \in Conns |-> NoToken]
  /\ closedAt = [c \in Conns |-> 0]
  /\ preds = [c \in Conns |-> {}]
  /\ upg = [c \in Conns |-> NoUpgrade]
  /\ auth_sessions = [t \in Tokens |-> IF t <= 2 THEN [username |-> TokenUser[t], created_at |-> 0] ELSE NoAuth]
  /\ nextToken = 3
  /\ owner = TokenUser
  /\ removed = {}
  /\ logout = NoLogout
  /\ failures = {}
  /\ login = NoLogin
  /\ origin = [t \in Tokens |-> IF t < nextToken THEN Ok(owner[t]) ELSE NoOrigin]
  /\ target = "local"
  /\ hang = {}
  /\ max_terminals = MaxTerminals

(***************************************************************************)
(* SpecFlow: one socket and one terminal id through its whole life: open,  *)
(* input, close and open again, with the byte movers.                      *)
(***************************************************************************)
NextFlow ==
  \/ TermOpen("c1", "t1")
  \/ CtQuota("c1")
  \/ SpCheck("c1")
  \/ SpSpawn("c1")
  \/ SpInsert("c1")
  \/ CtInsert("c1")
  \/ TermInput("c1", "t1")
  \/ WtGet("c1")
  \/ WtTouch("c1")
  \/ WtSend("c1")
  \/ TermClose("c1", "t1")
  \/ ClPty("c1")
  \/ ClLock("c1")
  \/ ClRemove("c1")
  \/ \E i \in Insts : Writer(i)
  \/ \E i \in Insts : Reader(i)
  \/ SendTask("c1")

SpecFlow == InitOpen /\ [][NextFlow]_vars

(***************************************************************************)
(* SpecGate: reconnecting: the socket c1 opens the terminal, either socket *)
(* sends it input, the byte movers run, sockets end.                       *)
(***************************************************************************)
NextGate ==
  \/ \E c \in Conns : WsHandler(c, ConnToken[c])
  \/ TermOpen("c1", "t1")
  \/ CtQuota("c1")
  \/ SpCheck("c1")
  \/ SpSpawn("c1")
  \/ SpInsert("c1")
  \/ CtInsert("c1")
  \/ \E c \in Conns : TermInput(c, "t1")
  \/ \E c \in Conns : WtGet(c)
  \/ \E c \in Conns : WtTouch(c)
  \/ \E c \in Conns : WtSend(c)
  \/ \E i \in Insts : Writer(i)
  \/ \E i \in Insts : Reader(i)
  \/ \E c \in Conns : SendTask(c)
  \/ \E c \in Conns : SockClose(c)

SpecGate == InitLogged /\ [][NextGate]_vars

(***************************************************************************)
(* SpecIdle: a terminal left behind by its socket, the clock and the       *)
(* cleanup task: upgrade, term.open, term.input (without the byte          *)
(* movers), the socket's end.                                              *)
(***************************************************************************)
NextIdle ==
  \/ \E c \in Conns : WsHandler(c, ConnToken[c])
  \/ TermOpen("c1", "t1")
  \/ CtQuota("c1")
  \/ SpCheck("c1")
  \/ SpSpawn("c1")
  \/ SpInsert("c1")
  \/ CtInsert("c1")
  \/ \E c \in Conns : TermInput(c, "t1")
  \/ \E c \in Conns : WtGet(c)
  \/ \E c \in Conns : WtTouch(c)
  \/ \E c \in Conns : WtSend(c)
  \/ \E c \in Conns : SockClose(c)
  \/ Tick
  \/ ReaperStep

SpecIdle == InitLogged /\ [][NextIdle]_vars

(***************************************************************************)
(* SpecAuth: the session store behind login, logout, the socket upgrade,   *)
(* the dispatch of an envelope and the socket's end.                       *)
(***************************************************************************)
NextAuth ==
  \/ \E a \in FormAttempts : Login(a)
  \/ \E k \in Issued \cup {NoToken} : Logout(k)
  \/ \E c \in Conns, k \in Issued \cup {NoToken} : WsHandler(c, k)
  \/ \E c \in Conns : TermClose(c, "t1")
  \/ \E c \in Conns : ClPty(c)
  \/ \E c \in Conns : ClRemove(c)
  \/ \E c \in Conns : SockClose(c)

SpecAuth == InitFresh /\ [][NextAuth]_vars

(***************************************************************************)
(* SpecAge: the session store over days: login, logout, the socket         *)
(* upgrade, the socket's end and the clock, which never stops short of its *)
(* bound.                                                                  *)
(***************************************************************************)
NextAge ==
  \/ \E a \in FormAttempts : Login(a)
  \/ \E k \in Issued \cup {NoToken} : Logout(k)
  \/ \E c \in Conns, k \in Issued \cup {NoToken} : WsHandler(c, k)
  \/ \E c \in Conns : SockClose(c)
  \/ Elapse

SpecAge == InitFresh /\ [][NextAge]_vars /\ WF_vars(Elapse)

(***************************************************************************)
(* SpecLogin: login attempts of every kind.                                *)
(***************************************************************************)
NextLogin == \E a \in Attempts : Login(a)

SpecLogin == InitFresh /\ [][NextLogin]_vars

(***************************************************************************)
(* SpecSignIn: login attempts at either host, with a password typed in the *)
(* form or a configured key file, a host that answers or not, and a        *)
(* username that is good, empty or malformed.                              *)
(***************************************************************************)
SignInAttempts ==
  {a \in Attempts : /\ a.auth \in {"None", "KeyFile"}
                    /\ a.cred \in {"right", "unreadable"}
                    /\ a.username \in {"alice", "", BadName}}

NextSignIn == \E a \in SignInAttempts : Login(a)

SpecSignIn == InitFresh /\ [][NextSignIn]_vars

(***************************************************************************)
(* SpecReapLive: a terminal that is marked disconnected and then used      *)
(* again (input, resize, close and a new open) while the cleanup task      *)
(* scans and removes.                                                      *)
(***************************************************************************)
NextReapLive ==
  \/ TermOpen("c1", "t1")
  \/ CtQuota("c1")
  \/ SpCheck("c1")
  \/ SpSpawn("c1")
  \/ SpInsert("c1")
  \/ CtInsert("c1")
  \/ SmDisconnect("t1")
  \/ TermInput("c1", "t1")
  \/ WtGet("c1")
  \/ WtTouch("c1")
  \/ WtSend("c1")
  \/ \E sz \in Sizes : TermResize("c1", "t1", sz)
  \/ RsPty("c1")
  \/ RsLock("c1")
  \/ RsTouch("c1")
  \/ TermClose("c1", "t1")
  \/ ClPty("c1")
  \/ ClLock("c1")
  \/ ClRemove("c1")
  \/ Tick
  \/ ReaperStep

SpecReapLive == InitOpen /\ [][NextReapLive]_vars

(***************************************************************************)
(* SpecRace: one socket opens and closes a terminal while another sends it *)
(* input.                                                                  *)
(***************************************************************************)
NextRace ==
  \/ TermOpen("c1", "t1")
  \/ CtQuota("c1")
  \/ SpCheck("c1")
  \/ SpSpawn("c1")
  \/ SpInsert("c1")
  \/ CtInsert("c1")
  \/ TermClose("c1", "t1")
  \/ ClPty("c1")
  \/ ClLock("c1")
  \/ ClRemove("c1")
  \/ TermInput("c2", "t1")
  \/ WtGet("c2")
  \/ WtTouch("c2")
  \/ WtSend("c2")
  \/ \E i \in Insts : Writer(i)

SpecRace == InitOpen /\ [][NextRace]_vars

\* two users have logged in and each has opened a socket; the first child spawned may
\* be one that never exits
InitStuck ==
  /\ InitManagers
  /\ target = "local"
  /\ hang \in {{}, {1}}
  /\ max_terminals = MaxTerminals
  /\ conn = [c \in Conns |-> "open"]
  /\ token = ConnToken
  /\ closedAt = [c \in Conns |-> 0]
  /\ preds = [c \in Conns |-> {}]
  /\ upg = [c \in Conns |-> [cookie |-> ConnToken[c], valid |-> TRUE, status |-> 101]]
  /\ auth_sessions = [t \in Tokens |-> IF t <= 2 THEN [username |-> TokenUser[t], created_at |-> 0] ELSE NoAuth]
  /\ nextToken = 3
  /\ owner = TokenUser
  /\ removed = {}
  /\ logout = NoLogout
  /\ failures = {}
  /\ login = NoLogin
  /\ origin = [t \in Tokens |-> IF t < nextToken THEN Ok(owner[t]) ELSE NoOrigin]

(***************************************************************************)
(* SpecStuck: one socket opens and closes t1, whose child may never exit,  *)
(* while the other opens, resizes and closes t2.                           *)
(***************************************************************************)
PtyStep(c) == SpCheck(c) \/ SpInsert(c) \/ RsPty(c) \/ ClPty(c)

NextStuck ==
  \/ TermOpen("c1", "t1")
  \/ TermOpen("c2", "t2")
  \/ \E c \in Conns : CtQuota(c)
  \/ \E c \in Conns : PtyStep(c)
  \/ \E c \in Conns : ClLock(c)
  \/ RsLock("c2")
  \/ \E c \in Conns : SpSpawn(c)
  \/ \E c \in Conns : CtInsert(c)
  \/ TermClose("c1", "t1")
  \/ TermClose("c2", "t2")
  \/ \E c \in Conns : ClRemove(c)
  \/ \E sz \in Sizes : TermResize("c2", "t2", sz)
  \/ RsTouch("c2")

SpecStuck == InitStuck /\ [][NextStuck]_vars

(***************************************************************************)
(* The locks: the session map's and the pty map's RwLock and the Mutex of  *)
(* each terminal. Between two steps a task holds the guards that are alive *)
(* at the await it sits at, and waits for the one lock its next step       *)
(* takes. A send on an input queue and a wait for a child are no locks.    *)
(***************************************************************************)
Tasks == Conns \cup {"reaper"}

SessionMapLock == <<"sessions", 0>>
PtyMapLock == <<"ptys", 0>>
TermLock(i) == <<"terminal", i>>
NoLock == [lock |-> <<"none", 0>>, mode |-> "r"]

Holds(t) ==
  IF t = "reaper"
    THEN CASE reaper.pc = "kill" -> {[lock |-> PtyMapLock, mode |-> "w"]}
           [] reaper.pc = "wait" -> {[lock |-> PtyMapLock, mode |-> "w"], [lock |-> TermLock(pheld.term), mode |-> "w"]}
           [] OTHER -> {}
    ELSE (CASE task[t].pc = "rs_lock" -> {[lock |-> PtyMapLock, mode |-> "r"]}
            [] task[t].pc = "cl_lock" -> {[lock |-> PtyMapLock, mode |-> "w"]}
            [] task[t].pc = "cl_wait" -> {[lock |-> PtyMapLock, mode |-> "w"], [lock |-> TermLock(pheld.term), mode |-> "w"]}
            [] OTHER -> {})
         \cup (IF task[t].view = "none" THEN {} ELSE {[lock |-> SessionMapLock, mode |-> "r"]})

Wants(t) ==
  IF t = "reaper"
    THEN CASE reaper.pc = "scan" -> [lock |-> SessionMapLock, mode |-> "r"]
           [] reaper.pc = "close" -> [lock |-> PtyMapLock, mode |-> "w"]
           [] reaper.pc = "kill" -> [lock |-> TermLock(pheld.term), mode |-> "w"]
           [] reaper.pc = "remove" -> [lock |-> SessionMapLock, mode |-> "w"]
           [] OTHER -> NoLock
    ELSE CASE task[t].pc \in {"ct_quota", "wt_get"} -> [lock |-> SessionMapLock, mode |-> "r"]
           [] task[t].pc \in {"ct_insert", "cl_remove", "wt_touch", "rs_touch"} ->
                [lock |-> SessionMapLock, mode |-> "w"]
           [] task[t].pc \in {"sp_check", "rs_pty"} -> [lock |-> PtyMapLock, mode |-> "r"]
           [] task[t].pc \in {"sp_insert", "cl_pty"} -> [lock |-> PtyMapLock, mode |-> "w"]
           [] task[t].pc = "rs_lock" -> [lock |-> TermLock(task[t].term), mode |-> "w"]
           [] task[t].pc = "cl_lock" -> [lock |-> TermLock(pheld.term), mode |-> "w"]
           [] OTHER -> NoLock

(***************************************************************************)
(* SpecLocks: one socket opens a terminal, whose child may never exit, and *)
(* closes it, another sends it input and resizes it, and the cleanup task  *)
(* collects it.                                                            *)
(***************************************************************************)
NextLocks ==
  \/ nextInst = 1 /\ TermOpen("c1", "t1")
  \/ CtQuota("c1")
  \/ SpCheck("c1")
  \/ SpSpawn("c1")
  \/ SpInsert("c1")
  \/ CtInsert("c1")
  \/ TermClose("c1", "t1")
  \/ ClPty("c1")
  \/ ClLock("c1")
  \/ ClRemove("c1")
  \/ TermInput("c2", "t1")
  \/ WtGet("c2")
  \/ WtTouch("c2")
  \/ WtSend("c2")
  \/ TermResize("c2", "t1", OpenSize)
  \/ RsPty("c2")
  \/ RsLock("c2")
  \/ RsTouch("c2")
  \/ SmDisconnect("t1")
  \/ Tick
  \/ ReaperStep

SpecLocks == InitStuck /\ [][NextLocks]_vars

(***************************************************************************)
(* SpecRevoke: two sockets upgraded with the cookie of one login; one      *)
(* opens a terminal and sends it input, the other resizes and closes it,   *)
(* while the user logs out and either socket ends.                         *)
(***************************************************************************)
NextRevoke ==
  \/ \E c \in Conns : WsHandler(c, 1)
  \/ Logout(1)
  \/ \E c \in Conns : SockClose(c)
  \/ TermOpen("c1", "t1")
  \/ CtQuota("c1")
  \/ SpCheck("c1")
  \/ SpSpawn("c1")
  \/ SpInsert("c1")
  \/ CtInsert("c1")
  \/ TermInput("c1", "t1")
  \/ WtGet("c1")
  \/ WtTouch("c1")
  \/ WtSend("c1")
  \/ \E sz \in Sizes : TermResize("c2", "t1", sz)
  \/ RsPty("c2")
  \/ RsLock("c2")
  \/ RsTouch("c2")
  \/ TermClose("c2", "t1")
  \/ ClPty("c2")
  \/ ClLock("c2")
  \/ ClRemove("c2")

SpecRevoke == InitLogged /\ [][NextRevoke]_vars

(***************************************************************************)
(* SpecLoop: the inbound loop of one socket, fed envelopes of every kind   *)
(* for one terminal id until the socket ends.                              *)
(***************************************************************************)
NextLoop ==
  \/ TermOpen("c1", "t1")
  \/ CtQuota("c1")
  \/ SpCheck("c1")
  \/ SpSpawn("c1")
  \/ SpInsert("c1")
  \/ CtInsert("c1")
  \/ TermInput("c1", "t1")
  \/ WtGet("c1")
  \/ WtTouch("c1")
  \/ WtSend("c1")
  \/ \E sz \in Sizes : TermResize("c1", "t1", sz)
  \/ RsPty("c1")
  \/ RsLock("c1")
  \/ RsTouch("c1")
  \/ TermClose("c1", "t1")
  \/ ClPty("c1")
  \/ ClLock("c1")
  \/ ClRemove("c1")
  \/ \E i \in Insts : Writer(i)
  \/ SockClose("c1")

SpecLoop == InitOpen /\ [][NextLoop]_vars

(***************************************************************************)
(* SpecFrames: two sockets receiving frames of every kind, one of them     *)
(* with a terminal open and output on its way.                             *)
(***************************************************************************)
NextFrames ==
  \/ TermOpen("c1", "t1")
  \/ CtQuota("c1")
  \/ SpCheck("c1")
  \/ SpSpawn("c1")
  \/ SpInsert("c1")
  \/ CtInsert("c1")
  \/ \E c \in Conns, f \in OtherFrames \cup {"close"} : RecvFrame(c, f)
  \/ TermInput("c1", "t1")
  \/ WtGet("c1")
  \/ WtTouch("c1")
  \/ WtSend("c1")
  \/ \E i \in Insts : Writer(i)
  \/ \E i \in Insts : Reader(i)

SpecFrames == InitOpen /\ [][NextFrames]_vars

(***************************************************************************)
(* SpecGuard: authenticate_os called with every username of up to MaxName  *)
(* characters and every kind of password.                                  *)
(***************************************************************************)
NameChars == {"a", "Z", "7", "_", "-", ".", ";", " ", "e-acute"}

RECURSIVE Names(_)
Names(n) ==
  IF n = 0 THEN {<<>>}
  ELSE Names(n - 1) \cup {Append(u, ch) : u \in {v \in Names(n - 1) : Len(v) = n - 1}, ch \in NameChars}

NextGuard == \E u \in Names(MaxName), p \in {"", "right", "wrong"} : OsCall(u, p)

SpecGuard == InitFresh /\ [][NextGuard]_vars

(***************************************************************************)
(* SpecReapFail: the cleanup task at work on disconnected terminals while  *)
(* a socket closes one of them.                                            *)
(***************************************************************************)
NextReapFail ==
  \/ TermOpen("c1", "t1")
  \/ TermOpen("c2", "t2")
  \/ \E c \in Conns : CtQuota(c)
  \/ \E c \in Conns : SpCheck(c)
  \/ \E c \in Conns : SpSpawn(c)
  \/ \E c \in Conns : SpInsert(c)
  \/ \E c \in Conns : CtInsert(c)
  \/ \E id \in Ids : SmDisconnect(id)
  \/ TermClose("c1", "t1")
  \/ ClPty("c1")
  \/ ClLock("c1")
  \/ ClRemove("c1")
  \/ Tick
  \/ ReaperStep

SpecReapFail == InitOpen /\ [][NextReapFail]_vars

(***************************************************************************)
(* SpecTeardown: one socket opens a terminal once, sends it input and      *)
(* closes it; the writer task and the reader thread of every terminal run         *)
(* whenever they can, as the runtime and the OS schedule them.             *)
(***************************************************************************)
NextTeardown ==
  \/ nextInst = 1 /\ TermOpen("c1", "t1")
  \/ CtQuota("c1")
  \/ SpCheck("c1")
  \/ SpSpawn("c1")
  \/ SpInsert("c1")
  \/ CtInsert("c1")
  \/ TermInput("c1", "t1")
  \/ WtGet("c1")
  \/ WtTouch("c1")
  \/ WtSend("c1")
  \/ TermClose("c1", "t1")
  \/ ClPty("c1")
  \/ ClLock("c1")
  \/ ClRemove("c1")
  \/ \E i \in Insts : Writer(i)
  \/ \E i \in Insts : Reader(i)

SpecTeardown ==
  /\ InitOpen
  /\ [][NextTeardown]_vars
  /\ \A i \in Insts : WF_vars(Writer(i)) /\ WF_vars(Reader(i))

\* two users have logged in and each has opened a socket; the configured quota
\* leaves room for one terminal more than the default
InitRoomy ==
  /\ InitManagers
  /\ target = "local"
  /\ hang = {}
  /\ max_terminals = MaxTerminals + 1
  /\ conn = [c \in Conns |-> "open"]
  /\ token = ConnToken
  /\ closedAt = [c \in Conns |-> 0]
  /\ preds = [c \in Conns |-> {}]
  /\ upg = [c \in Conns |-> [cookie |-> ConnToken[c], valid |-> TRUE, status |-> 101]]
  /\ auth_sessions = [t \in Tokens |-> IF t <= 2 THEN [username |-> TokenUser[t], created_at |-> 0] ELSE NoAuth]
  /\ nextToken = 3
  /\ owner = TokenUser
  /\ removed = {}
  /\ logout = NoLogout
  /\ failures = {}
  /\ login = NoLogin
  /\ origin = [t \in Tokens |-> IF t < nextToken THEN Ok(owner[t]) ELSE NoOrigin]

(***************************************************************************)
(* SpecShare: one user's socket opens a terminal; another user's socket    *)
(* asks to open the id while it is registered, and writes to, resizes and  *)
(* closes the terminal.                                                    *)
(***************************************************************************)
NextShare ==
  \/ nextInst = 1 /\ TermOpen("c1", "t1")
  \/ sessions["t1"] # NoSession /\ TermOpen("c2", "t1")
  \/ \E c \in Conns : CtQuota(c)
  \/ \E c \in Conns : SpCheck(c)
  \/ SpSpawn("c1")
  \/ SpInsert("c1")
  \/ CtInsert("c1")
  \/ TermInput("c2", "t1")
  \/ WtGet("c2")
  \/ WtTouch("c2")
  \/ WtSend("c2")
  \/ \E sz \in Sizes : TermResize("c2", "t1", sz)
  \/ RsPty("c2")
  \/ RsLock("c2")
  \/ RsTouch("c2")
  \/ TermClose("c2", "t1")
  \/ ClPty("c2")
  \/ ClLock("c2")
  \/ ClRemove("c2")
  \/ \E i \in Insts : Writer(i)

SpecShare == InitRoomy /\ [][NextShare]_vars

(***************************************************************************)
(* SpecOutput: two sockets, each with a terminal of its own; either sends  *)
(* input to the first one's terminal, the byte movers run, and the first   *)
(* socket ends.                                                            *)
(***************************************************************************)
NextOutput ==
  \/ TermOpen("c1", "t1")
  \/ TermOpen("c2", "t2")
  \/ \E c \in Conns : CtQuota(c)
  \/ \E c \in Conns : SpCheck(c)
  \/ \E c \in Conns : SpSpawn(c)
  \/ \E c \in Conns : SpInsert(c)
  \/ \E c \in Conns : CtInsert(c)
  \/ \E c \in Conns, id \in Ids : TermInput(c, id)
  \/ \E c \in Conns : WtGet(c)
  \/ \E c \in Conns : WtTouch(c)
  \/ \E c \in Conns : WtSend(c)
  \/ \E i \in Insts : Writer(i)
  \/ \E i \in Insts : Reader(i)
  \/ \E c \in Conns : SendTask(c)
  \/ SockClose("c1")

SpecOutput == InitRoomy /\ [][NextOutput]_vars

(***************************************************************************)
(* SpecExit: a socket opens a terminal, sends it input and closes it; the  *)
(* child may exit on its own; another socket asks for a terminal of its    *)
(* own while the first is registered, and is followed up to the quota      *)
(* check; the byte movers and the cleanup task run.                        *)
(***************************************************************************)
NextExit ==
  \/ nextInst = 1 /\ TermOpen("c1", "t1")
  \/ sessions["t1"] # NoSession /\ TermOpen("c2", "t2")
  \/ \E c \in Conns : CtQuota(c)
  \/ SpCheck("c1")
  \/ SpSpawn("c1")
  \/ SpInsert("c1")
  \/ CtInsert("c1")
  \/ \E i \in Insts : ChildExit(i)
  \/ TermInput("c1", "t1")
  \/ WtGet("c1")
  \/ WtTouch("c1")
  \/ WtSend("c1")
  \/ TermClose("c1", "t1")
  \/ ClPty("c1")
  \/ ClLock("c1")
  \/ ClRemove("c1")
  \/ \E i \in Insts : Writer(i)
  \/ \E i \in Insts : Reader(i)
  \/ Tick
  \/ ReaperStep

SpecExit == InitOpen /\ [][NextExit]_vars

(***************************************************************************)
(* SpecBacklog: a terminal is open whose child has stopped reading, so its *)
(* writer has fallen behind and the input channel is full. A socket sends  *)
(* input to either id and opens a second terminal;                         *)
(* the writer drains whenever the scheduler lets it.                       *)
(***************************************************************************)
Backlog == [k \in 1..QueueCap |-> [src |-> "c1", n |-> 0]]

InitBacklog ==
  /\ sessions = [id \in Ids |-> IF id = "t1" THEN [handle |-> 1, last_activity |-> 0, connected |-> TRUE]
                                ELSE NoSession]
  /\ ptys = [id \in Ids |-> IF id = "t1" THEN 1 ELSE 0]
  /\ child = [i \in Insts |-> IF i = 1 THEN "alive" ELSE "none"]
  /\ nextInst = 2
  /\ size = [i \in Insts |-> IF i = 1 THEN OpenSize ELSE NoSize]
  /\ winch = [c \in Conns |-> 0]
  /\ target = "local"
  /\ kind = [i \in Insts |-> IF i = 1 THEN "local" ELSE "none"]
  /\ hang = {}
  /\ max_terminals = MaxTerminals + 1
  /\ pheld = NoHold
  /\ seen = [c \in Conns |-> {}]
  /\ oscall = NoOsCall
  /\ scanned = [id \in Ids |-> 0]
  /\ task = [c \in Conns |-> Idle]
  /\ now = 0
  /\ reaper = Asleep
  /\ sink = [i \in Insts |-> IF i = 1 THEN [conn |-> "c1", id |-> "t1"] ELSE [conn |-> NoConn, id |-> NoId]]
  /\ inputq = [i \in Insts |-> IF i = 1 THEN Backlog ELSE <<>>]
  /\ written = [i \in Insts |-> <<>>]
  /\ ptybuf = [i \in Insts |-> <<>>]
  /\ rdlog = [i \in Insts |-> <<>>]
  /\ wr = [i \in Insts |-> IF i = 1 THEN "run" ELSE "none"]
  /\ rd = [i \in Insts |-> IF i = 1 THEN "run" ELSE "none"]
  /\ outq = [c \in Conns |-> <<>>]
  /\ delivered = [c \in Conns |-> <<>>]
  /\ routed = [i \in Insts |-> IF i = 1 THEN Backlog ELSE <<>>]
  /\ nsent = [c \in Conns |-> 0]
  /\ result = [c \in Conns |-> "none"]
  /\ rivals = [c \in Conns |-> {}]
  /\ peak = 1
  /\ reaped = {}
  /\ shut = {}
  /\ denied = {}
  /\ conn = [c \in Conns |-> "open"]
  /\ token = ConnToken
  /\ closedAt = [c \in Conns |-> 0]
  /\ preds = [c \in Conns |-> {}]
  /\ upg = [c \in Conns |-> [cookie |-> ConnToken[c], valid |-> TRUE, status |-> 101]]
  /\ auth_sessions = [t \in Tokens |-> IF t <= 2 THEN [username |-> TokenUser[t], created_at |-> 0] ELSE NoAuth]
  /\ nextToken = 3
  /\ owner = TokenUser
  /\ removed = {}
  /\ logout = NoLogout
  /\ failures = {}
  /\ login = NoLogin
  /\ origin = [t \in Tokens |-> IF t < nextToken THEN Ok(owner[t]) ELSE NoOrigin]

NextBacklog ==
  \/ \E id \in Ids : TermInput("c1", id)
  \/ WtGet("c1")
  \/ WtTouch("c1")
  \/ WtSend("c1")
  \/ TermOpen("c1", "t2")
  \/ CtQuota("c1")
  \/ SpCheck("c1")
  \/ SpSpawn("c1")
  \/ SpInsert("c1")
  \/ CtInsert("c1")
  \/ \E i \in Insts : Writer(i)

SpecBacklog == InitBacklog /\ [][NextBacklog]_vars

(***************************************************************************)
(* SpecDup: one socket, one envelope at a time: it opens t1, opens it      *)
(* again, sends it input and closes it, with the terminal's writer and     *)
(* reader at work.                                                         *)
(***************************************************************************)
NextDup ==
  \/ TermOpen("c1", "t1")
  \/ CtQuota("c1")
  \/ SpCheck("c1")
  \/ SpSpawn("c1")
  \/ SpInsert("c1")
  \/ CtInsert("c1")
  \/ TermInput("c1", "t1")
  \/ WtGet("c1")
  \/ WtTouch("c1")
  \/ WtSend("c1")
  \/ TermClose("c1", "t1")
  \/ ClPty("c1")
  \/ ClLock("c1")
  \/ ClRemove("c1")
  \/ \E i \in Insts : Writer(i)
  \/ \E i \in Insts : Reader(i)

SpecDup == InitRoomy /\ [][NextDup]_vars

(***************************************************************************)
(* SpecResize: two sockets resizing one terminal id while it is opened and *)
(* closed.                                                                 *)
(***************************************************************************)
NextResize ==
  \/ \E c \in Conns : TermOpen(c, "t1")
  \/ \E c \in Conns : CtQuota(c)
  \/ \E c \in Conns : SpCheck(c)
  \/ \E c \in Conns : SpSpawn(c)
  \/ \E c \in Conns : SpInsert(c)
  \/ \E c \in Conns : CtInsert(c)
  \/ \E c \in Conns, sz \in Sizes : TermResize(c, "t1", sz)
  \/ \E c \in Conns : RsPty(c)
  \/ \E c \in Conns : RsLock(c)
  \/ \E c \in Conns : RsTouch(c)
  \/ TermClose("c1", "t1")
  \/ ClPty("c1")
  \/ ClLock("c1")
  \/ ClRemove("c1")

SpecResize == InitOpen /\ [][NextResize]_vars

(***************************************************************************)
(* SpecQuota: one socket opening terminals one after the other and sending *)
(* them input, with the byte movers.                                       *)
(***************************************************************************)
NextQuota ==
  \/ \E id \in Ids : TermOpen("c1", id)
  \/ CtQuota("c1")
  \/ SpCheck("c1")
  \/ SpSpawn("c1")
  \/ SpInsert("c1")
  \/ CtInsert("c1")
  \/ \E id \in Ids : TermInput("c1", id)
  \/ WtGet("c1")
  \/ WtTouch("c1")
  \/ WtSend("c1")
  \/ \E i \in Insts : Writer(i)
  \/ \E i \in Insts : Reader(i)
  \/ SendTask("c1")

SpecQuota == InitOpen /\ [][NextQuota]_vars

\* either target is configured; two users have logged in and each has opened a socket
InitTarget ==
  /\ InitManagers
  /\ target \in {"local", "remote"}
  /\ hang = {}
  /\ max_terminals = MaxTerminals
  /\ conn = [c \in Conns |-> "open"]
  /\ token = ConnToken
  /\ closedAt = [c \in Conns |-> 0]
  /\ preds = [c \in Conns |-> {}]
  /\ upg = [c \in Conns |-> [cookie |-> ConnToken[c], valid |-> TRUE, status |-> 101]]
  /\ auth_sessions = [t \in Tokens |-> IF t <= 2 THEN [username |-> TokenUser[t], created_at |-> 0] ELSE NoAuth]
  /\ nextToken = 3
  /\ owner = TokenUser
  /\ removed = {}
  /\ logout = NoLogout
  /\ failures = {}
  /\ login = NoLogin
  /\ origin = [t \in Tokens |-> IF t < nextToken THEN Ok(owner[t]) ELSE NoOrigin]

(***************************************************************************)
(* SpecBackend: terminals opened, resized and closed under either target.  *)
(***************************************************************************)
NextBackend ==
  \/ \E c \in Conns : TermOpen(c, "t1")
  \/ \E c \in Conns : CtQuota(c)
  \/ \E c \in Conns : SpCheck(c)
  \/ \E c \in Conns : SpSpawn(c)
  \/ \E c \in Conns : SpInsert(c)
  \/ \E c \in Conns : CtInsert(c)
  \/ \E sz \in Sizes : TermResize("c1", "t1", sz)
  \/ RsPty("c1")
  \/ RsLock("c1")
  \/ RsTouch("c1")
  \/ TermClose("c1", "t1")
  \/ ClPty("c1")
  \/ ClLock("c1")
  \/ ClRemove("c1")

SpecBackend == InitTarget /\ [][NextBackend]_vars

(***************************************************************************)
(* C1: two create operations for the same terminal id that run             *)
(* concurrently never both succeed: one gets the id, the other fails with  *)
(* AlreadyExists.                                                          *)
(***************************************************************************)
C1_OneCreateWins ==
  \A c, d \in Conns :
    (c # d /\ d \in rivals[c] /\ c \in rivals[d]) =>
      ~(result[c] = "Ok" /\ result[d] = "Ok")

(***************************************************************************)
(* C2: the terminal map never holds more than max_terminals entries plus   *)
(* the number of create operations that were in flight at the same time    *)
(* (none when creates never overlapped).                                   *)
(***************************************************************************)
Racers == IF peak >= 2 THEN peak ELSE 0

C5_ReapedChildKilled == \A i \in reaped : child[i] = "killed"

(***************************************************************************)
(* C3: for every terminal and every socket, the chunks the terminal's      *)
(* writer wrote to the pty are, in order, the inputs of that socket's      *)
(* term.input envelopes that were resolved to the terminal: what is        *)
(* written is always a prefix of what was received, and while the writer   *)
(* runs nothing is missing or doubled: written, queued and in-flight       *)
(* chunks together are exactly the received ones.                          *)
(***************************************************************************)
From(q, c) == SelectSeq(q, LAMBDA x : x.src = c)

IsPrefix(a, b) == Len(a) <= Len(b) /\ SubSeq(b, 1, Len(a)) = a

InFlight(c, i) ==
  IF task[c].pc \in {"wt_touch", "wt_send"} /\ task[c].h = i THEN <<task[c].data>> ELSE <<>>

C3_InputOrder ==
  \A i \in Insts, c \in Conns :
    /\ IsPrefix(From(written[i], c), From(routed[i], c))
    /\ wr[i] = "run" =>
         From(written[i], c) \o From(inputq[i], c) \o InFlight(c, i) = From(routed[i], c)

C3_Witness ==
  \E i \in Insts :
    /\ Len(written[i]) >= 2
    /\ written[i] = routed[i]
    /\ sessions["t1"].handle = i

(***************************************************************************)
(* C4: while a terminal is registered and the socket that opened it is     *)
(* open, every chunk its reader has read is a shell.output envelope of the *)
(* socket's stream (written to the socket or queued for it), in the order  *)
(* read.                                                                   *)
(***************************************************************************)
Envelopes(i) == [k \in 1..Len(rdlog[i]) |-> ShellOutput(i, rdlog[i][k])]

Stream(c, i) == SelectSeq(delivered[c] \o outq[c], LAMBDA e : e.inst = i)

C4_OutputNoLoss ==
  \A i \in Insts, id \in Ids :
    (sessions[id] # NoSession /\ sessions[id].handle = i /\ ptys[id] = i
       /\ conn[sink[i].conn] = "open") =>
      Envelopes(i) = Stream(sink[i].conn, i)

(***************************************************************************)
(* C6: once the socket that opened a terminal has ended, the terminal does *)
(* not stay registered past idle_timeout plus one reaper interval, counted *)
(* from the socket's end or the terminal's last activity, whichever is     *)
(* later, and the cleanup pass that follows.                               *)
(***************************************************************************)
C6_ReapedAfterDisconnect ==
  \A id \in Live :
    LET i == sessions[id].handle
        c == sink[i].conn
    IN (conn[c] = "closed" /\ reaper.pc = "sleep") =>
         now - Max(closedAt[c], sessions[id].last_activity) <= IdleTimeout + ReaperInterval

(***************************************************************************)
(* C7: after the socket that opened a terminal has ended and a new socket  *)
(* was upgraded, the output produced by an input of the new socket, once   *)
(* read and accepted as text, is a shell.output envelope of the new        *)
(* socket's stream.                                                        *)
(***************************************************************************)
C7_ReconnectOutput ==
  \A i \in Insts, c \in Conns :
    \A k \in 1..Len(rdlog[i]) :
      (rdlog[i][k].src = c /\ rdlog[i][k].valid /\ sink[i].conn \in preds[c]
         /\ conn[c] = "open") =>
        \E j \in 1..Len(Stream(c, i)) : Stream(c, i)[j] = ShellOutput(i, rdlog[i][k])

(***************************************************************************)
(* C8: an upgrade request is answered 401 exactly when its cookie holds no *)
(* token of the session store (none at all, one never issued, one          *)
(* removed); a socket is upgraded only on a request whose token was in the *)
(* store, and only an upgraded socket dispatches envelopes.                *)
(***************************************************************************)
C8_AuthGate ==
  \A c \in Conns :
    /\ upg[c].status = 401 => ~upg[c].valid
    /\ upg[c].status = 101 => upg[c].valid
    /\ conn[c] # "new" => upg[c].status = 101
    /\ task[c].pc # "recv" => (conn[c] # "new" /\ upg[c].valid)

C8_Witness ==
  \E c, d \in Conns :
    /\ upg[c].status = 401
    /\ upg[c].cookie \in Tokens
    /\ task[d].pc = "cl_pty"

(***************************************************************************)
(* C9: a token create_session returned validates to the username it was    *)
(* created for until remove_session is called with it, and to nobody from  *)
(* then on, whatever happens to the other tokens.                          *)
(***************************************************************************)
C9_TokenRoundTrip ==
  \A t \in Tokens :
    t \in Issued =>
      ValidateSession(t) = IF t \in removed THEN NoUser ELSE owner[t]

C9_Witness ==
  \E t, u \in Tokens :
    /\ t \in Issued /\ u \in Issued
    /\ t \in removed /\ ValidateSession(t) = NoUser
    /\ u \notin removed /\ ValidateSession(u) \in Users

(***************************************************************************)
(* C10: a session that has become older than the maximum age is            *)
(* eventually rejected by validate_session.                                *)
(***************************************************************************)
C10_AgedOut ==
  \A t \in Tokens :
    (auth_sessions[t] # NoAuth /\ now - auth_sessions[t].created_at > SessionMaxAge)
      ~> (ValidateSession(t) = NoUser)

(***************************************************************************)
(* C11: once the inbound loop of an upgraded socket has ended, the token   *)
(* the socket was upgraded with is out of the session store: /api/session  *)
(* with it answers unauthenticated, and no socket upgraded after that end  *)
(* was upgraded with it.                                                   *)
(***************************************************************************)
C11_RevokedOnDisconnect ==
  \A c \in Conns :
    conn[c] = "closed" =>
      /\ ~SessionCheck(token[c]).authenticated
      /\ \A d \in Conns : c \in preds[d] => token[d] # token[c]

C11_Witness ==
  \E c, d \in Conns :
    /\ c # d
    /\ conn[c] = "closed"
    /\ upg[d].status = 401
    /\ upg[d].cookie = token[c]

(***************************************************************************)
(* C12: a logout with a cookie that an earlier logout was already called   *)
(* with leaves the session store as it found it and answers success, as    *)
(* the first one did.                                                      *)
(***************************************************************************)
C12_LogoutIdempotent ==
  /\ logout.again => (logout.same /\ logout.success)
  /\ logout.seen # {} => logout.success

C12_Witness ==
  /\ logout.again
  /\ logout.seen \cap Issued # {}
  /\ \E t \in Issued : t \notin removed

(***************************************************************************)
(* C13: a close of an id whose previous close has completed, with no       *)
(* create of the id since, gets NotFound from PtyManager::close; and no    *)
(* step of a close changes the record, the pty entry, the child or the     *)
(* input queue of a terminal registered under another id.                  *)
(***************************************************************************)
CloseStep(c) == task[c].pc \in ClosePcs /\ task'[c] # task[c]

OthersUntouched(id) ==
  \A o \in Ids \ {id} :
    /\ sessions'[o] = sessions[o]
    /\ ptys'[o] = ptys[o]
    /\ \A i \in {ptys[o], sessions[o].handle} \ {0} :
         child'[i] = child[i] /\ inputq'[i] = inputq[i] /\ wr'[i] = wr[i]

C13_DoubleClose ==
  [][\A c \in Conns :
       CloseStep(c) =>
         /\ (task[c].pc = "cl_pty" /\ task[c].again /\ task[c].id \in shut) =>
              result'[c] = "NotFound"
         /\ OthersUntouched(task[c].id)]_vars

C13_Witness ==
  \E c \in Conns, o \in Ids :
    /\ task[c].pc = "cl_remove"
    /\ task[c].again
    /\ task[c].id \in shut
    /\ result[c] = "NotFound"
    /\ o # task[c].id
    /\ sessions[o] # NoSession
    /\ child[sessions[o].handle] = "alive"

(***************************************************************************)
(* C14: a resize that asks for the size the terminal's pty already has     *)
(* leaves the size of every pty as it was and makes at most one            *)
(* window-size request to the pty.                                         *)
(***************************************************************************)
SameSize(c) ==
  /\ task[c].pc = "rs_lock"
  /\ size[task[c].term] = task[c].sz

C14_ResizeUnchanged ==
  [][\A c \in Conns :
       (SameSize(c) /\ task'[c] # task[c]) => (size' = size /\ winch'[c] <= 1)]_vars

C14_Witness ==
  \E c \in Conns :
    /\ task[c].pc = "rs_touch"
    /\ task[c].again
    /\ task[c].sz # OpenSize
    /\ winch[c] = 1

(***************************************************************************)
(* C15: a create that finds max_terminals records in the map fails with    *)
(* MaxTerminalsReached, spawns no child and leaves both maps as they were; *)
(* the id it was refused for stays unregistered, a term.input for it ends  *)
(* in NotFound without touching any queue, and no envelope of any socket's *)
(* stream carries it.                                                      *)
(***************************************************************************)
QuotaStep(c) ==
  task[c].pc = "ct_quota" /\ task'[c] # task[c] /\ Cardinality(Live) >= MaxTerminals

DeniedInput(c) ==
  task[c].pc = "wt_get" /\ task'[c] # task[c] /\ task[c].id \in denied

NoOutputFor(id) ==
  \A c \in Conns :
    \A k \in 1..Len(delivered[c] \o outq[c]) : (delivered[c] \o outq[c])[k].id # id

C16_BackendSelection ==
  /\ [](\A i \in Insts :
          kind[i] # "none" => kind[i] = IF target = "remote" THEN "ssh" ELSE "pty")
  /\ [][\A i \in Insts : kind[i] # "none" => kind'[i] = kind[i]]_vars


(***************************************************************************)
(* C17: any two failed login attempts, whatever their causes, are answered *)
(* with the same user-visible message.                                     *)
(***************************************************************************)
C17_UniformLoginFailure == \A m1, m2 \in failures : m1 = m2


(***************************************************************************)
(* C18: a send_input that runs while a close of the same terminal id is in *)
(* progress, and whose send comes after the close has killed the child,    *)
(* returns SendError: it does not report success for bytes the closed      *)
(* terminal will not process.                                              *)
(***************************************************************************)
C18_CloseRacesInput ==
  [][\A c \in Conns :
       (/\ task[c].pc = "wt_send" /\ task'[c].pc = "recv"
        /\ rivals[c] # {}
        /\ child[task[c].h] # "alive")
         => result'[c] = "SendError"]_vars


(***************************************************************************)
(* C19: send_input returns NotFound exactly when the id has no record, and *)
(* then leaves the terminal map, the backends and every input queue as     *)
(* they were; once the record is found it returns SendError exactly when   *)
(* the input queue has been closed, and success only with the bytes        *)
(* appended to a queue that is open.                                       *)
(***************************************************************************)
C19_SendInputOutcomes ==
  [][\A c \in Conns :
       /\ (task[c].pc = "wt_get" /\ task'[c] # task[c] /\ sessions[task[c].id] = NoSession)
            => /\ result'[c] = "NotFound"
               /\ UNCHANGED <<smVars, inputq, wr>>
       /\ (task[c].pc \in InputPcs /\ task'[c].pc = "recv" /\ result'[c] = "NotFound")
            => (task[c].pc = "wt_get" /\ sessions[task[c].id] = NoSession)
       /\ (task[c].pc = "wt_send" /\ task'[c].pc = "recv")
            => /\ result'[c] = "SendError" <=> wr[task[c].h] = "done"
               /\ result'[c] = "Ok" <=>
                    /\ wr[task[c].h] = "run"
                    /\ inputq'[task[c].h] = Append(inputq[task[c].h], task[c].data)
               /\ result'[c] \in {"Ok", "SendError"}]_vars

C19_Witness ==
  /\ result["c2"] = "SendError"
  /\ task["c2"].pc = "recv"
  /\ nsent["c2"] = MaxInput
  /\ sessions["t1"] = NoSession


(***************************************************************************)
(* C20: the end of a socket's connection leaves the terminal map, the pty  *)
(* manager's map, every child, every input queue and every writer and      *)
(* reader as they were; it empties that socket's outbound channel and      *)
(* removes that socket's token, and no other token.                        *)
(***************************************************************************)
C20_TerminalsSurvive ==
  [][\A c \in Conns :
       (conn[c] = "open" /\ conn'[c] = "closed")
         => /\ UNCHANGED <<sessions, ptys, child, inputq, wr, rd>>
            /\ outq'[c] = <<>>
            /\ \A d \in Conns \ {c} : outq'[d] = outq[d]
            /\ auth_sessions'[token[c]] = NoAuth
            /\ \A t \in Tokens \ {token[c]} : auth_sessions'[t] = auth_sessions[t]]_vars

C20_Witness ==
  /\ conn["c1"] = "closed"
  /\ sessions["t1"] # NoSession
  /\ sink[sessions["t1"].handle].conn = "c1"
  /\ child[sessions["t1"].handle] = "alive"
  /\ wr[sessions["t1"].handle] = "run"
  /\ inputq[sessions["t1"].handle] # <<>>


(***************************************************************************)
(* C21: while a close is blocked in its backend call on one terminal (the  *)
(* child does not exit on kill-and-wait), the pending spawn, resize or     *)
(* close step of any other socket on another terminal id can take the pty  *)
(* manager's map and go on.                                                *)
(***************************************************************************)
C21_StuckNeverBlocks ==
  \A c \in Conns : \A d \in Conns \ {c} :
    (/\ task[c].pc = "cl_wait"
     /\ task[d].pc \in PtyMapPcs
     /\ task[d].id # task[c].id)
      => ENABLED PtyStep(d)


(***************************************************************************)
(* C22: when the handling of an envelope ends, whatever its outcome, the   *)
(* inbound task is back at the head of its loop with the connection open   *)
(* and the next envelope can be dispatched; the connection ends only from  *)
(* the head of the loop, never from inside a handler.                      *)
(***************************************************************************)
C22_ErrorsKeepConnection ==
  /\ [](\A c \in Conns :
          (conn[c] = "open" /\ task[c].pc = "recv" /\ result[c] \notin {"none", "Ok"})
            => ENABLED TermClose(c, "t1"))
  /\ [][\A c \in Conns :
          /\ (task[c].pc \in HandlerPcs /\ task'[c].pc \notin HandlerPcs)
               => (task'[c].pc = "recv" /\ conn'[c] = "open")
          /\ (conn[c] = "open" /\ conn'[c] = "closed") => task[c].pc = "recv"]_vars

C22_Witness ==
  /\ conn["c1"] = "open"
  /\ task["c1"].pc = "wt_get"
  /\ nsent["c1"] = 2
  /\ result["c1"] = "pending"
  /\ sessions["t1"] = NoSession
  /\ nextInst = 1


(***************************************************************************)
(* C23: a binary frame, a text frame that does not parse, and a            *)
(* shell.output or shell.exit envelope sent by the client each leave the   *)
(* terminal map, the pty manager's map, the children, the input queues and *)
(* the session store as they were, put nothing on any outbound queue, and  *)
(* leave the connection open with the inbound task at its loop.            *)
(***************************************************************************)
C23_DroppedFrames ==
  [][\A c \in Conns :
       (seen'[c] # seen[c] /\ seen'[c] \ seen[c] \subseteq OtherFrames)
         => /\ UNCHANGED <<sessions, ptys, child, inputq, auth_sessions, outq>>
            /\ conn'[c] = "open"
            /\ task'[c] = Idle]_vars

C23_Witness ==
  /\ seen["c1"] = OtherFrames
  /\ conn["c1"] = "open"
  /\ sessions["t1"] # NoSession
  /\ outq["c1"] # <<>>


(***************************************************************************)
(* C24: authenticate_os reaches the operating-system helper only with a    *)
(* non-empty password and a non-empty username made solely of characters   *)
(* of [A-Za-z0-9_.-]; every other request is rejected before the helper.   *)
(***************************************************************************)
PlainChars == {"a", "b", "c", "e", "i", "l", "o", "Z", "7", "_", ".", "-"}

C24_UsernameGuard ==
  oscall.helper =>
    /\ oscall.username # <<>>
    /\ oscall.password # ""
    /\ \A i \in 1..Len(oscall.username) : oscall.username[i] \in PlainChars


(***************************************************************************)
(* C25: no step of the handling of term.close, from its dispatch to its    *)
(* return, puts an envelope on an outbound queue, whether the terminal     *)
(* existed or not.                                                         *)
(***************************************************************************)
C25_NoExitOnClose ==
  [][\A c \in Conns :
       (\/ task[c].pc = "recv" /\ task'[c].pc = "cl_pty"
        \/ task[c].pc \in ClosePcs /\ task'[c] # task[c])
         => outq' = outq]_vars

C25_Witness ==
  /\ task["c1"].pc = "recv"
  /\ "t1" \in shut
  /\ child[1] = "killed"
  /\ outq["c1"] # <<>>


(***************************************************************************)
(* C26: disconnect(id) turns the connected flag of that id's record to     *)
(* false and changes nothing else: the record stays, with its handle and   *)
(* its last_activity; every other record, the pty manager's map, the       *)
(* children, the input queues and the writers are as before; on an absent  *)
(* id the map is left as it is.                                            *)
(***************************************************************************)
C26_DisconnectOnlyFlag ==
  /\ [](\A id \in Ids : sessions[id] = NoSession => Disconnect(id) = sessions)
  /\ [][\A id \in Ids :
          (/\ sessions[id] # NoSession /\ sessions'[id] # NoSession
           /\ sessions[id].connected /\ ~sessions'[id].connected)
            => /\ sessions' = [sessions EXCEPT ![id].connected = FALSE]
               /\ UNCHANGED <<ptys, child, inputq, wr, rd, sink>>]_vars

C26_Witness ==
  /\ sessions["t1"] # NoSession
  /\ ~sessions["t1"].connected
  /\ sessions["t1"].last_activity < now
  /\ child[sessions["t1"].handle] = "alive"
  /\ wr[sessions["t1"].handle] = "run"


(***************************************************************************)
(* C27: a task that is inside a backend call (PtyManager::spawn, resize or *)
(* close) or awaiting the send on a terminal's input queue holds no view   *)
(* of the session map.                                                     *)
(***************************************************************************)
C27_LockDiscipline ==
  \A c \in Conns : task[c].pc \in BackendPcs => task[c].view = "none"

C27_Witness ==
  /\ task["c1"].pc = "wt_send"
  /\ task["c1"].view = "none"
  /\ sessions["t1"] # NoSession
  /\ inputq[task["c1"].h] # <<>>


(***************************************************************************)
(* C28: when PtyManager::close fails for an id the cleanup task collected, *)
(* the task goes on to remove that id's record; after a removal it goes on *)
(* to the ids still collected in the same tick, or back to sleep when none *)
(* is left; and asleep, it wakes at the next tick.                         *)
(***************************************************************************)
C28_ReaperResilient ==
  /\ [](reaper.pc = "sleep" /\ now < MaxTime => ENABLED Tick)
  /\ [][/\ (reaper.pc = "close" /\ reaper' # reaper /\ ptys[reaper'.cur] = 0)
             => reaper'.pc = "remove"
        /\ (reaper.pc = "remove" /\ reaper' # reaper)
             => /\ sessions'[reaper.cur] = NoSession
                /\ reaper' = IF reaper.todo = {reaper.cur} THEN Asleep
                             ELSE [pc |-> "close", todo |-> reaper.todo \ {reaper.cur}, cur |-> NoId]]_vars

C28_Witness ==
  /\ task["c1"].pc = "cl_remove"
  /\ result["c1"] = "Ok"
  /\ sessions["t1"] = NoSession
  /\ reaper.pc = "close"
  /\ reaper.todo = {"t2"}


(***************************************************************************)
(* C29: once a terminal has been closed (its child killed, its record      *)
(* removed) and no send_input holds its handle, its writer task ends and   *)
(* its reader thread ends, after which the output sink is not called.      *)
(***************************************************************************)
Closed(i) ==
  /\ child[i] = "killed"
  /\ \A id \in Ids : sessions[id] = NoSession \/ sessions[id].handle # i
  /\ \A c \in Conns : task[c].h # i

C30_DuplicateCreate ==
  [][\A c \in Conns :
       (/\ task[c].pc = "sp_check" /\ task'[c] # task[c]
        /\ sessions[task[c].id] # NoSession
        /\ \A d \in Conns \ {c} : task[d].pc = "recv")
         => /\ result'[c] = "AlreadyExists"
            /\ task'[c] = Idle
            /\ UNCHANGED <<sessions, ptys, child, nextInst, inputq, wr, rd, sink, size>>]_vars

C30_Witness ==
  /\ result["c1"] = "AlreadyExists"
  /\ task["c1"].pc = "recv"
  /\ sessions["t1"] # NoSession
  /\ Cardinality(Live) < max_terminals
  /\ child[sessions["t1"].handle] = "alive"
  /\ inputq[sessions["t1"].handle] # <<>>
  /\ nextInst = 2



(***************************************************************************)
(* C31: a login attempt whose authentication fails leaves the session      *)
(* store as it was and sets no cookie, and every token in the session      *)
(* store was created by a login whose authentication succeeded, for the    *)
(* username that login authenticated.                                      *)
(***************************************************************************)
C31_SessionsFromLogins ==
  /\ [](\A t \in Tokens :
          auth_sessions[t] # NoAuth =>
            (origin[t].ok /\ origin[t].val = auth_sessions[t].username))
  /\ [](login.made /\ ~login.ok => login.cookie = NoToken)
  /\ [][(login' # login /\ ~login'.ok) =>
          (auth_sessions' = auth_sessions /\ nextToken' = nextToken)]_vars

C31_Witness ==
  /\ login.made
  /\ ~login.ok
  /\ login.cookie = NoToken
  /\ auth_sessions[1] # NoAuth
  /\ origin[1].ok
  /\ auth_sessions[2] = NoAuth
  /\ Cardinality(failures) >= 2



(***************************************************************************)
(* C32: whenever no create, no close and no removal by the cleanup task is *)
(* in flight, the session manager's map and the pty manager's map hold the *)
(* same set of terminal ids.                                               *)
(***************************************************************************)
Quiescent ==
  /\ \A c \in Conns : task[c].pc \notin CreatePcs \cup ClosePcs \cup {"cl_wait"}
  /\ reaper.pc \in {"sleep", "scan"}

C32_MapConsistency == Quiescent => Live = {id \in Ids : ptys[id] # 0}



(***************************************************************************)
(* C33: every child process that spawn has started and that has not been   *)
(* killed is registered in the pty manager's map under its id, or is about *)
(* to be by the spawn that started it, so that close(id) or the cleanup    *)
(* task can still reach it.                                                *)
(***************************************************************************)
C33_NoLeakedChild ==
  \A i \in Insts :
    child[i] = "alive" =>
      \/ \E id \in Ids : ptys[id] = i
      \/ \E c \in Conns : task[c].pc = "sp_insert" /\ task[c].h = i



(***************************************************************************)
(* C34: the cleanup task kills a terminal and removes its record only if,  *)
(* at that moment, the record is still disconnected and idle beyond the    *)
(* timeout and still holds the terminal instance the scan saw: an input, a *)
(* resize, or a close and a new open of the id between the scan and the    *)
(* removal keep the terminal from being killed.                            *)
(***************************************************************************)
StillCollectable(id) ==
  /\ id \in IdleIds
  /\ sessions[id].handle = scanned[id]

C34_ReaperActsOnCurrent ==
  [][/\ (reaper.pc = "close" /\ reaper' # reaper /\ (child' # child \/ ptys' # ptys))
          => StillCollectable(reaper'.cur)
     /\ (reaper.pc = "remove" /\ sessions' # sessions)
          => StillCollectable(reaper.cur)]_vars



(***************************************************************************)
(* C35: no reachable state has a set of tasks (inbound tasks and the       *)
(* cleanup task) in which every task waits for a lock (the session map's,  *)
(* the pty map's, a terminal's) that another task of the set, or the task  *)
(* itself, holds in a conflicting mode; and no task holds the session      *)
(* map's lock and the pty map's lock at the same time.                     *)
(***************************************************************************)
WaitsOn(t, u) ==
  \E h \in Holds(u) :
    /\ h.lock = Wants(t).lock
    /\ (h.mode = "w" \/ Wants(t).mode = "w")

C35_DeadlockFree ==
  /\ \A S \in SUBSET Tasks : S # {} => \E t \in S : \A u \in S : ~WaitsOn(t, u)
  /\ \A t \in Tasks : ~({SessionMapLock, PtyMapLock} \subseteq {h.lock : h \in Holds(t)})

C35_Witness ==
  /\ task["c1"].pc = "cl_wait"
  /\ WaitsOn("c2", "c1")
  /\ WaitsOn("reaper", "c1")
  /\ task["c2"].pc = "rs_pty"



(***************************************************************************)
(* C36: an upgraded socket whose token has been removed from the session   *)
(* store, by a logout or by the end of another socket upgraded with the    *)
(* same token, is still open, is not ended by the removal, and still       *)
(* dispatches term.open, term.input, term.resize and term.close.           *)
(***************************************************************************)
Revoked(c) == conn[c] = "open" /\ ValidateSession(token[c]) = NoUser

C36_TokenCheckedAtUpgrade ==
  /\ [](\A c \in Conns :
          (Revoked(c) /\ task[c].pc = "recv") =>
            /\ ENABLED TermClose(c, "t1")
            /\ ENABLED TermResize(c, "t1", OpenSize)
            /\ Sum(nsent, Conns) < MaxInput => ENABLED TermInput(c, "t1")
            /\ (nextInst = 1 /\ \A d \in Conns : ~InCreate(d)) => ENABLED TermOpen(c, "t1"))
  /\ [][\A c \in Conns :
          (conn[c] = "open" /\ conn'[c] # "open") =>
            (task[c].pc = "recv" /\ closedAt'[c] = now /\ removed' = removed \cup {token[c]})]_vars

C36_Witness ==
  /\ Revoked("c1") /\ Revoked("c2")
  /\ 1 \in logout.seen
  /\ task["c1"].pc = "wt_send"
  /\ task["c2"].pc = "rs_lock"
  /\ result["c1"] = "pending"
  /\ nsent["c1"] = 2



(***************************************************************************)
(* C37: terminal ids are global: a term.input, term.resize or term.close   *)
(* for a terminal that another socket, of another user, opened is carried  *)
(* out on that terminal (its input queue, its window size, its child and   *)
(* its record), and a term.open for an id registered by another socket is  *)
(* refused with AlreadyExists and changes nothing.                         *)
(***************************************************************************)
Foreign(c, i) ==
  /\ i # 0
  /\ sink[i].conn # c
  /\ owner[token[sink[i].conn]] # owner[token[c]]

C37_NoOwnershipCheck ==
  [][\A c \in Conns :
       task'[c] # task[c] =>
         LET id == task[c].id
             pc == task[c].pc
         IN /\ (pc = "wt_get" /\ sessions[id] # NoSession /\ Foreign(c, sessions[id].handle))
                 => (task'[c].pc = "wt_touch" /\ task'[c].h = sessions[id].handle)
            /\ (pc = "wt_send" /\ Foreign(c, task[c].h) /\ wr[task[c].h] = "run")
                 => (result'[c] = "Ok" /\ inputq'[task[c].h] = Append(inputq[task[c].h], task[c].data))
            /\ (pc = "rs_pty" /\ Foreign(c, ptys[id])) => task'[c].pc = "rs_lock"
            /\ (pc = "rs_lock" /\ Foreign(c, task[c].term))
                 => (size'[task[c].term] = task[c].sz \/ result'[c] = "PtyError")
            /\ (pc = "cl_pty" /\ Foreign(c, ptys[id])) => (ptys'[id] = 0 /\ task'[c].pc = "cl_lock")
            /\ (pc = "cl_lock" /\ Foreign(c, pheld.term)) => child'[pheld.term] = "killed"
            /\ (pc = "cl_remove" /\ sessions[id] # NoSession /\ Foreign(c, sessions[id].handle))
                 => sessions'[id] = NoSession
            /\ (pc = "sp_check" /\ Foreign(c, ptys[id]))
                 => /\ result'[c] = "AlreadyExists"
                    /\ task'[c] = Idle
                    /\ UNCHANGED <<sessions, ptys, child, nextInst, inputq, size, sink>>]_vars

C37_Witness ==
  /\ sink[1].conn = "c1"
  /\ owner[token["c1"]] = "alice"
  /\ owner[token["c2"]] = "bob"
  /\ task["c2"].pc = "cl_remove"
  /\ result["c2"] = "Ok"
  /\ child[1] = "killed"
  /\ size[1] # OpenSize
  /\ \E k \in 1..Len(written[1]) : written[1][k].src = "c2"
  /\ sessions["t1"] # NoSession
  /\ sessions["t1"].handle = 1



(***************************************************************************)
(* C38: every shell.output envelope, queued or written to a socket, is on  *)
(* the stream of the socket whose term.open created the terminal it comes  *)
(* from, and carries the id of that term.open; reading a chunk changes no  *)
(* other socket's queue; and once that socket has ended the chunk is       *)
(* dropped, while the reader, never blocked by the queue, goes on reading. *)
(***************************************************************************)
C38_OutputIsolation ==
  /\ [](\A c \in Conns :
          \A k \in 1..Len(delivered[c] \o outq[c]) :
            LET e == (delivered[c] \o outq[c])[k]
            IN sink[e.inst].conn = c /\ e.id = sink[e.inst].id)
  /\ [](\A i \in Insts : (rd[i] = "run" /\ ptybuf[i] # <<>>) => ENABLED Reader(i))
  /\ [][\A i \in Insts :
          rdlog'[i] # rdlog[i] =>
            /\ \A d \in Conns \ {sink[i].conn} : outq'[d] = outq[d]
            /\ conn[sink[i].conn] # "open" => outq' = outq
            /\ ptybuf'[i] = Rest(ptybuf[i])]_vars

C38_Witness ==
  /\ conn["c1"] = "closed"
  /\ sink[1].conn = "c1"
  /\ rd[1] = "run"
  /\ ptybuf[1] # <<>>
  /\ Head(ptybuf[1]).src = "c2"
  /\ sink[2].conn = "c2"
  /\ outq["c2"] # <<>>



(***************************************************************************)
(* C39: the exit of a terminal's child on its own, and the end of its      *)
(* reader at EOF, leave the terminal's record and its pty entry in place;  *)
(* from then on a record leaves the session map only in the removal step   *)
(* of a term.close for its id and a pty entry only in the pty step of one, *)
(* and until then the terminal counts against max_terminals: a create that *)
(* finds the map full of such terminals is refused.                        *)
(***************************************************************************)
Exited(id) == sessions[id] # NoSession /\ child[sessions[id].handle] = "exited"

ClosingStep(id, pc) ==
  \E c \in Conns : task[c].pc = pc /\ task[c].id = id /\ task'[c] # task[c]

C39_ExitedKeepsSlot ==
  [][/\ \A i \in Insts :
          ((child[i] = "alive" /\ child'[i] = "exited") \/ (rd[i] = "run" /\ rd'[i] = "done"))
            => UNCHANGED <<sessions, ptys>>
     /\ \A id \in Ids :
          /\ (Exited(id) /\ sessions'[id] # sessions[id]) =>
               \/ ClosingStep(id, "cl_remove")
               \/ ClosingStep(id, "wt_touch") /\ sessions' = [sessions EXCEPT ![id].last_activity = now]
          /\ (Exited(id) /\ ptys[id] # 0 /\ ptys'[id] # ptys[id]) => ClosingStep(id, "cl_pty")
     /\ \A c \in Conns :
          (/\ task[c].pc = "ct_quota" /\ task'[c] # task[c]
           /\ Cardinality({id \in Ids : Exited(id)}) >= max_terminals)
            => result'[c] = "MaxTerminalsReached"]_vars

C39_Witness ==
  /\ Exited("t1")
  /\ ptys["t1"] = sessions["t1"].handle
  /\ rd[sessions["t1"].handle] = "done"
  /\ result["c2"] = "MaxTerminalsReached"
  /\ now >= IdleTimeout + 2 * ReaperInterval
  /\ reaper.pc = "sleep"



(***************************************************************************)
(* C40: the input channel of a terminal never holds more than 256 chunks.  *)
(* An inbound task leaves the send of write_to_terminal only from a state  *)
(* in which the channel had a free slot or the writer had ended; and a     *)
(* socket's next envelope, for whatever terminal id, is dispatched only    *)
(* when its inbound task is back at the receive. So while a terminal's     *)
(* channel is full and its writer takes nothing from it, the socket whose  *)
(* task waits in the send dispatches nothing.                              *)
(***************************************************************************)
BlockedOnInput(c) ==
  /\ task[c].pc = "wt_send"
  /\ wr[task[c].h] = "run"
  /\ Len(inputq[task[c].h]) = QueueCap

C40_HeadOfLineBlocking ==
  /\ [](\A i \in Insts : Len(inputq[i]) <= QueueCap)
  /\ [](\A c \in Conns : BlockedOnInput(c) =>
          \A id \in Ids : /\ ~ENABLED TermInput(c, id)
                          /\ ~ENABLED TermOpen(c, id)
                          /\ ~ENABLED TermClose(c, id)
                          /\ ~ENABLED TermResize(c, id, OpenSize))
  /\ [][\A c \in Conns :
          /\ (BlockedOnInput(c) /\ inputq'[task[c].h] = inputq[task[c].h]) =>
               /\ task'[c] = task[c]
               /\ nsent'[c] = nsent[c]
               /\ result'[c] = "pending"
          /\ (task[c].pc = "wt_send" /\ task'[c] # task[c]) =>
               \/ Len(inputq[task[c].h]) < QueueCap
               \/ wr[task[c].h] = "done"]_vars

C40_Witness ==
  /\ BlockedOnInput("c1")
  /\ task["c1"].id = "t1"
  /\ sessions["t2"] # NoSession
  /\ inputq[sessions["t2"].handle] = <<>>
  /\ wr[sessions["t2"].handle] = "run"
  /\ nsent["c1"] < MaxInput
====
